---------------------------- MODULE Spec2Model ----------------------------
(***************************************************************************)
(* Model of the WhatsApp Flow endpoint of gautham2106/image2106:           *)
(*   - the hybrid envelope cipher (decryptRequest / encryptResponse),      *)
(*   - the media MAC-then-decrypt routine (decryptWhatsAppImage),          *)
(*   - the request handler that drives them, and the lead store that one   *)
(*     copy of the handler keeps in module scope.                          *)
(*                                                                         *)
(* The repository holds several deployed variants of the same route.  The  *)
(* variable `variant` selects the file that is deployed:                   *)
(*   "hmac32" : src/api/webhook.js lines 1-620    (32-byte trailer)        *)
(*   "hmac10" : src/api/webhook.js lines 622-1689 (10-byte trailer)        *)
(*   "p1"     : src/unnamed/part_001 lines 1-573  (10-byte, no validation) *)
(*   "p3"     : src/unnamed/part_003              (10-byte, lead store)    *)
(*   "p2"     : src/unnamed/part_002              (10-byte, media routine  *)
(*              and generation in a background job)                        *)
(*   "p0"     : src/unnamed/part_000              (the lead endpoint on    *)
(*              its own; it has a specification of its own, LeadSpec)      *)
(*                                                                         *)
(* Node's crypto primitives (RSA-OAEP, AES-GCM, AES-CBC, HMAC/SHA-256) are *)
(* library code.  They are modelled by small keyed functions over byte     *)
(* sequences that keep the properties the callers rely on: decryption      *)
(* inverts encryption under the same key and nonce, and any single-bit     *)
(* change of an authenticated input changes the tag.  Everything around    *)
(* them (lengths, splitting, ordering, base64, JSON, padding) is modelled  *)
(* byte for byte.                                                          *)
(***************************************************************************)
EXTENDS Integers, Sequences, FiniteSets, TLC

(***************************************************************************)
(* Bytes and byte sequences                                                *)
(***************************************************************************)
Byte == 0..255

RECURSIVE BitXor(_, _)
BitXor(a, b) ==
  IF a = 0 THEN b
  ELSE IF b = 0 THEN a
  ELSE (((a % 2) + (b % 2)) % 2) + (2 * BitXor(a \div 2, b \div 2))

Pow2(n) == CASE n = 0 -> 1 [] n = 1 -> 2 [] n = 2 -> 4 [] n = 3 -> 8
             [] n = 4 -> 16 [] n = 5 -> 32 [] n = 6 -> 64 [] OTHER -> 128

\* s with bit `bit` of byte `pos` inverted
FlipBit(s, pos, bit) ==
  [i \in 1..Len(s) |-> IF i = pos THEN BitXor(s[i], Pow2(bit)) ELSE s[i]]

\* Buffer.subarray(from) / Buffer.subarray(0, to)
Take(s, n) == SubSeq(s, 1, n)
Drop(s, n) == SubSeq(s, n + 1, Len(s))

\* a deterministic byte pattern of length n; stands for "some n bytes"
Pattern(seed, n) == [i \in 1..n |-> (seed + (37 * i)) % 256]

\* sum over i in lo..hi of i * (s[i] + 1), modulo 65537
RECURSIVE WeightedSum(_, _, _)
WeightedSum(s, lo, hi) ==
  IF lo > hi THEN 0
  ELSE IF lo = hi THEN (lo * (s[lo] + 1)) % 65537
  ELSE LET mid == (lo + hi) \div 2
       IN  (WeightedSum(s, lo, mid) + WeightedSum(s, mid + 1, hi)) % 65537

\* Model of a cryptographic digest with outLen bytes of output.  The sum is
\* taken modulo the prime 65537 with weights 1..Len(s) < 65537, so changing
\* one bit of one byte always changes it, and its first three output bytes
\* determine it.
Digest(s, outLen) ==
  LET h == (WeightedSum(s, 1, Len(s)) + (131 * Len(s))) % 65537
  IN  [k \in 1..outLen |->
         CASE k = 1 -> h \div 65536
           [] k = 2 -> (h \div 256) % 256
           [] k = 3 -> h % 256
           [] OTHER -> ((h * k) + (17 * k)) % 256]

(***************************************************************************)
(* base64: strings are sequences over 0..64, 64 standing for '='           *)
(***************************************************************************)
B64Pad == 64

\* one group of up to three bytes as four characters
B64Quad(b) ==
  IF Len(b) = 1 THEN
    << b[1] \div 4, (b[1] % 4) * 16, B64Pad, B64Pad >>
  ELSE IF Len(b) = 2 THEN
    << b[1] \div 4, ((b[1] % 4) * 16) + (b[2] \div 16), (b[2] % 16) * 4, B64Pad >>
  ELSE
    << b[1] \div 4, ((b[1] % 4) * 16) + (b[2] \div 16),
       ((b[2] % 16) * 4) + (b[3] \div 64), b[3] % 64 >>

\* Buffer.toString('base64'); the input is halved at a multiple of three
RECURSIVE Base64Encode(_)
Base64Encode(b) ==
  IF Len(b) = 0 THEN << >>
  ELSE IF Len(b) <= 3 THEN B64Quad(b)
  ELSE LET cut == 3 * ((Len(b) + 5) \div 6)
       IN  Base64Encode(Take(b, cut)) \o Base64Encode(Drop(b, cut))

\* the characters before the first '='
B64Body(s) ==
  LET pads == {i \in 1..Len(s) : s[i] = B64Pad}
  IN  IF pads = {} THEN s
      ELSE Take(s, (CHOOSE i \in pads : \A j \in pads : i <= j) - 1)

\* one group of up to four characters as bytes
B64Triple(q) ==
  IF Len(q) <= 1 THEN << >>
  ELSE IF Len(q) = 2 THEN << (q[1] * 4) + (q[2] \div 16) >>
  ELSE IF Len(q) = 3 THEN
    << (q[1] * 4) + (q[2] \div 16), ((q[2] % 16) * 16) + (q[3] \div 4) >>
  ELSE
    << (q[1] * 4) + (q[2] \div 16), ((q[2] % 16) * 16) + (q[3] \div 4),
       ((q[3] % 4) * 64) + q[4] >>

RECURSIVE B64Groups(_)
B64Groups(q) ==
  IF Len(q) <= 4 THEN B64Triple(q)
  ELSE LET cut == 4 * ((Len(q) + 7) \div 8)
       IN  B64Groups(Take(q, cut)) \o B64Groups(Drop(q, cut))

\* Buffer.from(text, 'base64'): decoding stops at the first '='
Base64Decode(s) == B64Groups(B64Body(s))

(***************************************************************************)
(* Library primitives.  Every result is [ok, val, err].                    *)
(***************************************************************************)
Ok(v) == [ok |-> TRUE, val |-> v, err |-> "none"]
Fail(e) == [ok |-> FALSE, val |-> << >>, err |-> e]

KeyAt(k, i) == k[((i - 1) % Len(k)) + 1]

\* tagLength: 128 (bits) in every AES-GCM call
TagLengthBits == 128
TagLen == TagLengthBits \div 8

\* RSA-OAEP(SHA-256) as the remote platform applies it to the session key
RsaOaepEncrypt(pub, m) ==
  LET body == [i \in 1..Len(m) |-> (m[i] + KeyAt(pub, i)) % 256]
  IN  body \o Digest(pub \o body, 4)

\* crypto.subtle.decrypt({name: "RSA-OAEP"}, privateKey, buffer)
RsaOaepDecrypt(priv, c) ==
  IF Len(c) < 4 THEN Fail("OperationError")
  ELSE LET body == Take(c, Len(c) - 4)
           chk  == Drop(c, Len(c) - 4)
       IN  IF Digest(priv \o body, 4) # chk THEN Fail("OperationError")
           ELSE Ok([i \in 1..Len(body) |-> (body[i] - KeyAt(priv, i)) % 256])

\* crypto.subtle.importKey("raw", key, {name: "AES-GCM"}, ...) takes 128, 192
\* and 256 bit keys
AesGcmImportOk(key) == Len(key) \in {16, 24, 32}

GcmStream(key, iv, n) ==
  LET base == Digest(key \o iv, 3)[3]
  IN  [i \in 1..n |-> (base + (31 * i)) % 256]

GcmTag(key, iv, ct) == Digest(key \o iv \o ct, TagLen)

\* crypto.subtle.encrypt({name: "AES-GCM", iv, tagLength: 128}, key, data):
\* ciphertext followed by the tag; a zero-length iv is refused
AesGcmEncrypt(key, iv, pt) ==
  IF ~AesGcmImportOk(key) THEN Fail("DataError")
  ELSE IF Len(iv) = 0 THEN Fail("OperationError")
  ELSE LET ks == GcmStream(key, iv, Len(pt))
           ct == [i \in 1..Len(pt) |-> BitXor(pt[i], ks[i])]
       IN  Ok(ct \o GcmTag(key, iv, ct))

\* crypto.subtle.decrypt({name: "AES-GCM", iv, tagLength: 128}, key, data)
AesGcmDecrypt(key, iv, data) ==
  IF ~AesGcmImportOk(key) THEN Fail("DataError")
  ELSE IF Len(iv) = 0 \/ Len(data) < TagLen THEN Fail("OperationError")
  ELSE LET ct == Take(data, Len(data) - TagLen)
           tg == Drop(data, Len(data) - TagLen)
           ks == GcmStream(key, iv, Len(ct))
       IN  IF GcmTag(key, iv, ct) # tg THEN Fail("OperationError")
           ELSE Ok([i \in 1..Len(ct) |-> BitXor(ct[i], ks[i])])

\* createHmac('sha256', key).update(a).update(b).digest() with msg = a || b
HmacSha256(key, msg) == Digest(key \o << 92 >> \o msg, 32)

\* createHash('sha256').update(data).digest()
Sha256(data) == Digest(<< 54 >> \o data, 32)

\* AES block size, bytes
BlockSize == 16

BlockEnc(key, b) == [i \in 1..Len(b) |-> (b[i] + KeyAt(key, i) + i) % 256]
BlockDec(key, b) == [i \in 1..Len(b) |-> (b[i] - KeyAt(key, i) - i) % 256]
XorBlock(a, b) == [i \in 1..Len(a) |-> BitXor(a[i], KeyAt(b, i))]

\* PKCS#7: 1..16 bytes, each holding the padding length
Pkcs7Pad(pt) ==
  LET n == BlockSize - (Len(pt) % BlockSize)
  IN  pt \o [i \in 1..n |-> n]

RECURSIVE CbcEncryptBlocks(_, _, _)
CbcEncryptBlocks(key, prev, pt) ==
  IF Len(pt) = 0 THEN << >>
  ELSE LET c == BlockEnc(key, XorBlock(Take(pt, BlockSize), prev))
       IN  c \o CbcEncryptBlocks(key, c, Drop(pt, BlockSize))

\* the sender's side: AES-256-CBC over the PKCS#7 padded plaintext
AesCbcEncrypt(key, iv, pt) == CbcEncryptBlocks(key, iv, Pkcs7Pad(pt))

RECURSIVE CbcDecryptBlocks(_, _, _)
CbcDecryptBlocks(key, prev, ct) ==
  IF Len(ct) = 0 THEN << >>
  ELSE LET c == Take(ct, BlockSize)
       IN  XorBlock(BlockDec(key, c), prev) \o CbcDecryptBlocks(key, c, Drop(ct, BlockSize))

\* decipher.final() with setAutoPadding(true): the last byte n must be in
\* 1..16 and the last n bytes must all equal n
Pkcs7Valid_lenient(raw) == Len(raw) > 0
Pkcs7Valid(raw) ==
  /\ Len(raw) > 0
  /\ LET n == raw[Len(raw)]
     IN  /\ n >= 1
         /\ n <= BlockSize
         /\ \A i \in (Len(raw) - n + 1)..Len(raw) : raw[i] = n

\* createDecipheriv('aes-256-cbc', key, iv); update(ct); final()
AesCbcDecrypt(key, iv, ct) ==
  IF Len(key) # 32 THEN Fail("Invalid key length")
  ELSE IF Len(iv) # BlockSize THEN Fail("Invalid initialization vector")
  ELSE IF Len(ct) = 0 \/ Len(ct) % BlockSize # 0 THEN Fail("wrong final block length")
  ELSE LET raw == CbcDecryptBlocks(key, iv, ct)
       IN  IF ~Pkcs7Valid(raw) THEN Fail("bad decrypt")
           ELSE Ok(Take(raw, Len(raw) - raw[Len(raw)]))

(***************************************************************************)
(* Text: strings are sequences of code points; JSON values are records     *)
(* [t, n, s, kids] with t in {"null","bool","num","str","obj"}; an object  *)
(* holds its members, in order, as records [k, v].                         *)
(***************************************************************************)
Str_action == << 97, 99, 116, 105, 111, 110 >>  \* "action"
Str_ping == << 112, 105, 110, 103 >>  \* "ping"
Str_data_exchange == << 100, 97, 116, 97, 95, 101, 120, 99, 104, 97, 110, 103, 101 >>  \* "data_exchange"
Str_INIT == << 73, 78, 73, 84 >>  \* "INIT"
Str_screen == << 115, 99, 114, 101, 101, 110 >>  \* "screen"
Str_data == << 100, 97, 116, 97 >>  \* "data"
Str_status == << 115, 116, 97, 116, 117, 115 >>  \* "status"
Str_active == << 97, 99, 116, 105, 118, 101 >>  \* "active"
Str_a == << 97 >>  \* "a"
Str_COLLECT_INFO == << 67, 79, 76, 76, 69, 67, 84, 95, 73, 78, 70, 79 >>  \* "COLLECT_INFO"
Str_COLLECT_IMAGE_SCENE == << 67, 79, 76, 76, 69, 67, 84, 95, 73, 77, 65, 71, 69, 95, 83, 67, 69, 78, 69 >>  \* "COLLECT_IMAGE_SCENE"
Str_SUCCESS_SCREEN == << 83, 85, 67, 67, 69, 83, 83, 95, 83, 67, 82, 69, 69, 78 >>  \* "SUCCESS_SCREEN"
Str_error_message == << 101, 114, 114, 111, 114, 95, 109, 101, 115, 115, 97, 103, 101 >>  \* "error_message"
Str_product_image == << 112, 114, 111, 100, 117, 99, 116, 95, 105, 109, 97, 103, 101 >>  \* "product_image"
Str_complete == << 99, 111, 109, 112, 108, 101, 116, 101 >>  \* "complete"
Str_mobile_number == << 109, 111, 98, 105, 108, 101, 95, 110, 117, 109, 98, 101, 114 >>  \* "mobile_number"
Str_product_category == << 112, 114, 111, 100, 117, 99, 116, 95, 99, 97, 116, 101, 103, 111, 114, 121 >>  \* "product_category"
Str_success == << 115, 117, 99, 99, 101, 115, 115 >>  \* "success"
Str_acknowledged == << 97, 99, 107, 110, 111, 119, 108, 101, 100, 103, 101, 100 >>  \* "acknowledged"
Str_error_notification == << 101, 114, 114, 111, 114, 95, 110, 111, 116, 105, 102, 105, 99, 97, 116, 105, 111, 110 >>  \* "error_notification"
Str_image_url == << 105, 109, 97, 103, 101, 95, 117, 114, 108 >>  \* "image_url"
Str_version == << 118, 101, 114, 115, 105, 111, 110 >>  \* "version"
Str_BACK == << 66, 65, 67, 75 >>  \* "BACK"
Str_completed == << 99, 111, 109, 112, 108, 101, 116, 101, 100 >>  \* "completed"
Str_message == << 109, 101, 115, 115, 97, 103, 101 >>  \* "message"
Str_FINAL_SUBMIT == << 70, 73, 78, 65, 76, 95, 83, 85, 66, 77, 73, 84 >>  \* "FINAL_SUBMIT"
Str_timestamp == << 116, 105, 109, 101, 115, 116, 97, 109, 112 >>  \* "timestamp"
Str_final_data_received == << 102, 105, 110, 97, 108, 95, 100, 97, 116, 97, 95, 114, 101, 99, 101, 105, 118, 101, 100 >>  \* "final_data_received"
Str_submitted == << 115, 117, 98, 109, 105, 116, 116, 101, 100 >>  \* "submitted"
\* a string with a quote, a backslash and a non-ASCII letter: say "\ é
Str_tricky == << 115, 97, 121, 32, 34, 92, 32, 233 >>
Str_user == << 117, 115, 101, 114 >>  \* "user"
Str_wa_id == << 119, 97, 95, 105, 100 >>  \* "wa_id"
Str_phone == << 112, 104, 111, 110, 101 >>  \* "phone"
Str_phone_number == << 112, 104, 111, 110, 101, 95, 110, 117, 109, 98, 101, 114 >>  \* "phone_number"
Str_latest == << 108, 97, 116, 101, 115, 116 >>  \* "latest"
Str_user_phone == << 117, 115, 101, 114, 95, 112, 104, 111, 110, 101 >>  \* "user_phone"

JNull == [t |-> "null", n |-> 0, s |-> << >>, kids |-> << >>]
JBool(b) == [t |-> "bool", n |-> IF b THEN 1 ELSE 0, s |-> << >>, kids |-> << >>]
JNum(n) == [t |-> "num", n |-> n, s |-> << >>, kids |-> << >>]
JStr(s) == [t |-> "str", n |-> 0, s |-> s, kids |-> << >>]
JObj(kids) == [t |-> "obj", n |-> 0, s |-> << >>, kids |-> kids]
Member(k, v) == [k |-> k, v |-> v]

\* obj[key] for an object value; JNull stands for undefined
RECURSIVE FindMember(_, _)
FindMember(kids, key) ==
  IF kids = << >> THEN JNull
  ELSE IF Head(kids).k = key THEN Head(kids).v
  ELSE FindMember(Tail(kids), key)

Get(obj, key) == IF obj.t = "obj" THEN FindMember(obj.kids, key) ELSE JNull

RECURSIVE Digits(_)
Digits(n) == IF n < 10 THEN << 48 + n >> ELSE Digits(n \div 10) \o << 48 + (n % 10) >>

RECURSIVE Escape(_)
Escape(s) ==
  IF s = << >> THEN << >>
  ELSE (IF Head(s) \in {34, 92} THEN << 92, Head(s) >> ELSE << Head(s) >>) \o Escape(Tail(s))

\* JSON.stringify(value)
RECURSIVE JsonStringify(_), StringifyMembers(_)
JsonStringify(v) ==
  CASE v.t = "null" -> << 110, 117, 108, 108 >>
    [] v.t = "bool" -> IF v.n = 1 THEN << 116, 114, 117, 101 >>
                       ELSE << 102, 97, 108, 115, 101 >>
    [] v.t = "num"  -> Digits(v.n)
    [] v.t = "str"  -> << 34 >> \o Escape(v.s) \o << 34 >>
    [] OTHER        -> << 123 >> \o StringifyMembers(v.kids) \o << 125 >>
StringifyMembers(kids) ==
  IF kids = << >> THEN << >>
  ELSE << 34 >> \o Escape(Head(kids).k) \o << 34, 58 >> \o JsonStringify(Head(kids).v)
       \o (IF Len(kids) > 1 THEN << 44 >> ELSE << >>) \o StringifyMembers(Tail(kids))

\* new TextEncoder().encode(text): UTF-8, code points below 0x10000
RECURSIVE Utf8Encode(_)
Utf8Encode(s) ==
  IF s = << >> THEN << >>
  ELSE IF Len(s) = 1 THEN
    IF s[1] < 128 THEN << s[1] >>
    ELSE IF s[1] < 2048 THEN << 192 + (s[1] \div 64), 128 + (s[1] % 64) >>
    ELSE << 224 + (s[1] \div 4096), 128 + ((s[1] \div 64) % 64), 128 + (s[1] % 64) >>
  ELSE LET cut == Len(s) \div 2
       IN  Utf8Encode(Take(s, cut)) \o Utf8Encode(Drop(s, cut))

\* new TextDecoder().decode(bytes): not fatal, a malformed byte becomes U+FFFD.
\* Byte i continues a two-byte sequence when it is in 0x80..0xBF and follows a
\* lead byte 0xC2..0xDF; every other byte starts a character.
Utf8Decode(b) ==
  LET IsLead(i) == b[i] >= 194 /\ b[i] <= 223
      IsCont(i) == i > 1 /\ b[i] >= 128 /\ b[i] <= 191 /\ IsLead(i - 1)
      starts == SelectSeq([i \in 1..Len(b) |-> i], LAMBDA i : ~IsCont(i))
      CharAt(i) ==
        IF b[i] < 128 THEN b[i]
        ELSE IF IsLead(i) /\ i < Len(b) /\ IsCont(i + 1)
          THEN ((b[i] - 192) * 64) + (b[i + 1] - 128)
        ELSE 65533
  IN  [j \in 1..Len(starts) |-> CharAt(starts[j])]

ParseOk(v, rest) == [ok |-> TRUE, val |-> v, rest |-> rest]
ParseFail == [ok |-> FALSE, val |-> JNull, rest |-> << >>]
StartsWith(s, p) == Len(s) >= Len(p) /\ Take(s, Len(p)) = p

RECURSIVE ScanString(_, _)
ScanString(s, acc) ==
  IF s = << >> THEN ParseFail
  ELSE IF Head(s) = 34 THEN ParseOk(JStr(acc), Tail(s))
  ELSE IF Head(s) = 92 THEN
    IF Len(s) >= 2 /\ s[2] \in {34, 92, 47}
    THEN ScanString(Drop(s, 2), Append(acc, s[2]))
    ELSE ParseFail
  ELSE IF Head(s) < 32 THEN ParseFail
  ELSE ScanString(Tail(s), Append(acc, Head(s)))

RECURSIVE ScanNumber(_, _)
ScanNumber(s, acc) ==
  IF s # << >> /\ Head(s) >= 48 /\ Head(s) <= 57
  THEN ScanNumber(Tail(s), (acc * 10) + (Head(s) - 48))
  ELSE ParseOk(JNum(acc), s)

\* JSON.parse on texts without white space, arrays, fractions or exponents
RECURSIVE ParseValue(_), ParseMembers(_, _)
ParseValue(s) ==
  IF s = << >> THEN ParseFail
  ELSE IF StartsWith(s, << 110, 117, 108, 108 >>) THEN ParseOk(JNull, Drop(s, 4))
  ELSE IF StartsWith(s, << 116, 114, 117, 101 >>) THEN ParseOk(JBool(TRUE), Drop(s, 4))
  ELSE IF StartsWith(s, << 102, 97, 108, 115, 101 >>) THEN ParseOk(JBool(FALSE), Drop(s, 5))
  ELSE IF Head(s) = 34 THEN ScanString(Tail(s), << >>)
  ELSE IF Head(s) = 48 THEN ParseOk(JNum(0), Tail(s))
  ELSE IF Head(s) >= 49 /\ Head(s) <= 57 THEN ScanNumber(s, 0)
  ELSE IF Head(s) = 123 THEN
    IF Len(s) >= 2 /\ s[2] = 125 THEN ParseOk(JObj(<< >>), Drop(s, 2))
    ELSE ParseMembers(Tail(s), << >>)
  ELSE ParseFail
ParseMembers(s, acc) ==
  IF s = << >> \/ Head(s) # 34 THEN ParseFail
  ELSE LET key == ScanString(Tail(s), << >>)
       IN  IF ~key.ok \/ key.rest = << >> \/ Head(key.rest) # 58 THEN ParseFail
           ELSE LET v == ParseValue(Tail(key.rest))
                IN  IF ~v.ok \/ v.rest = << >> THEN ParseFail
                    ELSE IF Head(v.rest) = 125
                      THEN ParseOk(JObj(Append(acc, Member(key.val.s, v.val))), Tail(v.rest))
                    ELSE IF Head(v.rest) = 44
                      THEN ParseMembers(Tail(v.rest), Append(acc, Member(key.val.s, v.val)))
                    ELSE ParseFail

JsonParse(text) ==
  LET r == ParseValue(text)
  IN  IF r.ok /\ r.rest = << >> THEN r ELSE ParseFail

(***************************************************************************)
(* KeyManager and the envelope cipher                                      *)
(***************************************************************************)
\* the DER bytes of the configured PKCS8 key, and PRIVATE_KEY as configured
ServerKeyDer == << 48, 130, 4, 189 >>
ServerKeyPem == Base64Encode(ServerKeyDer)

\* importPrivateKey: base64-decode the PEM body and import it as PKCS8,
\* which must be an ASN.1 SEQUENCE (first byte 0x30)
importPrivateKey(privateKeyPem) ==
  LET binaryDer == Base64Decode(privateKeyPem)
  IN  IF Len(binaryDer) >= 2 /\ binaryDer[1] = 48 THEN Ok(binaryDer)
      ELSE Fail("DataError")

\* `!field`: undefined and the empty string are both falsy
Missing(field) == field = << >>

\* what decryptRequest returned or threw; gcm lists the AES-GCM operations it
\* performed and rsa tells whether it called the RSA-OAEP unwrap
NoSession ==
  [ok |-> FALSE, err |-> "none", decryptedBody |-> JNull,
   aesKeyBuffer |-> << >>, initialVectorBuffer |-> << >>, gcm |-> << >>, rsa |-> FALSE]

SessionFail(e, gcm) == [NoSession EXCEPT !.err = e, !.gcm = gcm]

GcmOp(dir, key, nonce) == [dir |-> dir, key |-> key, nonce |-> nonce]

\* decryptRequest, the part after the key unwrap: base64-decode the flow data
\* and the initial vector, import the AES-GCM key, decrypt, decode, parse
DecryptFlowData_noTag(aesKeyBuffer, encrypted_flow_data, initial_vector) ==
  LET flowDataBuffer      == Base64Decode(encrypted_flow_data)
      initialVectorBuffer == Base64Decode(initial_vector)
      n      == IF Len(flowDataBuffer) > TagLen THEN Len(flowDataBuffer) - TagLen ELSE 0
      ks     == GcmStream(aesKeyBuffer, initialVectorBuffer, n)
      parsed == JsonParse(Utf8Decode([i \in 1..n |-> BitXor(flowDataBuffer[i], ks[i])]))
      op     == << GcmOp("decrypt", aesKeyBuffer, initialVectorBuffer) >>
  IN  IF ~AesGcmImportOk(aesKeyBuffer) \/ ~parsed.ok THEN SessionFail("Decryption failed", op)
      ELSE [ok |-> TRUE, err |-> "none", decryptedBody |-> parsed.val,
            aesKeyBuffer |-> aesKeyBuffer, initialVectorBuffer |-> initialVectorBuffer,
            gcm |-> op, rsa |-> TRUE]
DecryptFlowData(aesKeyBuffer, encrypted_flow_data, initial_vector) ==
  LET flowDataBuffer      == Base64Decode(encrypted_flow_data)
      initialVectorBuffer == Base64Decode(initial_vector)
  IN  IF ~AesGcmImportOk(aesKeyBuffer) THEN SessionFail("Decryption failed", << >>)
      ELSE LET op  == << GcmOp("decrypt", aesKeyBuffer, initialVectorBuffer) >>
               dec == AesGcmDecrypt(aesKeyBuffer, initialVectorBuffer, flowDataBuffer)
           IN  IF ~dec.ok THEN SessionFail("Decryption failed", op)
               ELSE LET parsed == JsonParse(Utf8Decode(dec.val))
                    IN  IF ~parsed.ok THEN SessionFail("Decryption failed", op)
                        ELSE [ok |-> TRUE, err |-> "none",
                              decryptedBody |-> parsed.val,
                              aesKeyBuffer |-> aesKeyBuffer,
                              initialVectorBuffer |-> initialVectorBuffer,
                              gcm |-> op, rsa |-> TRUE]

\* decryptRequest(body, privateKey)
decryptRequest_noFieldCheck(body, privateKey) ==
  LET unwrapped == RsaOaepDecrypt(privateKey, Base64Decode(body.encrypted_aes_key))
      r == IF ~unwrapped.ok THEN SessionFail("Decryption failed", << >>)
           ELSE DecryptFlowData(unwrapped.val, body.encrypted_flow_data, body.initial_vector)
  IN  [r EXCEPT !.rsa = TRUE]
decryptRequest(body, privateKey) ==
  IF \/ Missing(body.encrypted_aes_key)
     \/ Missing(body.encrypted_flow_data)
     \/ Missing(body.initial_vector)
  THEN SessionFail("Missing encrypted data fields", << >>)
  ELSE LET unwrapped == RsaOaepDecrypt(privateKey, Base64Decode(body.encrypted_aes_key))
           r == IF ~unwrapped.ok THEN SessionFail("Decryption failed", << >>)
                ELSE DecryptFlowData(unwrapped.val, body.encrypted_flow_data,
                                     body.initial_vector)
       IN  [r EXCEPT !.rsa = TRUE]

\* (byte) => ~byte & 0xFF
FlipByte_keep(byte) == byte % 256
FlipByte(byte) == ((-byte) - 1) % 256

\* initialVectorBuffer.map(...): same length, every byte flipped
flippedIv_firstOnly(initialVectorBuffer) ==
  [i \in 1..Len(initialVectorBuffer) |->
     IF i = 1 THEN FlipByte(initialVectorBuffer[i]) ELSE initialVectorBuffer[i]]
flippedIv(initialVectorBuffer) ==
  [i \in 1..Len(initialVectorBuffer) |-> FlipByte(initialVectorBuffer[i])]

\* encryptResponse(response, aesKeyBuffer, initialVectorBuffer); the result
\* also names the AES-GCM operation it performed
encryptResponse_sameIv(response, aesKeyBuffer, initialVectorBuffer) ==
  LET enc == AesGcmEncrypt(aesKeyBuffer, initialVectorBuffer,
                           Utf8Encode(JsonStringify(response)))
      op  == << GcmOp("encrypt", aesKeyBuffer, initialVectorBuffer) >>
  IN  IF ~enc.ok THEN [ok |-> FALSE, val |-> << >>, err |-> "Encryption failed", gcm |-> op]
      ELSE [ok |-> TRUE, val |-> Base64Encode(enc.val), err |-> "none", gcm |-> op]
encryptResponse(response, aesKeyBuffer, initialVectorBuffer) ==
  LET iv  == flippedIv(initialVectorBuffer)
      enc == AesGcmEncrypt(aesKeyBuffer, iv, Utf8Encode(JsonStringify(response)))
      op  == << GcmOp("encrypt", aesKeyBuffer, iv) >>
  IN  IF ~enc.ok THEN [ok |-> FALSE, val |-> << >>, err |-> "Encryption failed", gcm |-> op]
      ELSE [ok |-> TRUE, val |-> Base64Encode(enc.val), err |-> "none", gcm |-> op]

(***************************************************************************)
(* decryptWhatsAppImage.  imageData is                                     *)
(*   [cdn_url, encryption_key, hmac_key, iv, encrypted_hash]               *)
(* with cdn_url a flag (present or not) and the others base64 text, empty  *)
(* when absent.  The routine is split where it awaits the fetch.           *)
(***************************************************************************)
Variants == {"hmac32", "hmac10", "p1", "p3", "p2"}

\* bytes of MAC expected at the end of the fetched blob
TrailerLen(v) == IF v = "hmac32" THEN 32 ELSE 10

\* the checks made before the fetch is issued
MediaValidate(v, imageData) ==
  LET keyBuf    == Base64Decode(imageData.encryption_key)
      macKeyBuf == Base64Decode(imageData.hmac_key)
      ivBuf     == Base64Decode(imageData.iv)
  IN  IF ~imageData.cdn_url THEN Fail("Missing cdn_url or encryption_metadata")
      ELSE IF v = "p1" THEN Ok(<< >>)
      ELSE IF Len(keyBuf) # 32 THEN Fail("Invalid encryption_key length")
      ELSE IF Len(macKeyBuf) # 32 THEN Fail("Invalid hmac_key length")
      ELSE IF Len(ivBuf) # 16 THEN Fail("Invalid iv length")
      ELSE Ok(<< >>)

\* the comparison of the trailer with the computed HMAC
MacMatches_firstByte(v, macKeyBuf, ivBuf, cipherText, macTrailer) ==
  HmacSha256(macKeyBuf, ivBuf \o cipherText)[1] = macTrailer[1]
MacMatches(v, macKeyBuf, ivBuf, cipherText, macTrailer) ==
  IF v = "hmac32"
  THEN \/ macTrailer = HmacSha256(macKeyBuf, cipherText)
       \/ macTrailer = HmacSha256(macKeyBuf, ivBuf \o cipherText)
  ELSE Take(HmacSha256(macKeyBuf, ivBuf \o cipherText), 10) = macTrailer

AuthResult(ops, ok, err, cipherText) ==
  [ops |-> ops, ok |-> ok, err |-> err, cipherText |-> cipherText]

\* from the fetched bytes to the authenticated cipherText: length check,
\* encrypted_hash check (hmac10, p3 and p2), split, HMAC comparison
Authenticate(v, imageData, encBuf) ==
  LET macKeyBuf == Base64Decode(imageData.hmac_key)
      ivBuf     == Base64Decode(imageData.iv)
      n         == TrailerLen(v)
  IN  IF Len(encBuf) <= n
      THEN AuthResult(<< "too_small" >>, FALSE, "Encrypted payload too small", << >>)
      ELSE IF /\ v \in {"hmac10", "p3", "p2"}
              /\ ~Missing(imageData.encrypted_hash)
              /\ Base64Encode(Sha256(encBuf)) # imageData.encrypted_hash
      THEN AuthResult(<< "hash_fail" >>, FALSE, "Encrypted hash mismatch", << >>)
      ELSE LET macTrailer == Drop(encBuf, Len(encBuf) - n)
               cipherText == Take(encBuf, Len(encBuf) - n)
           IN  IF MacMatches(v, macKeyBuf, ivBuf, cipherText, macTrailer)
               THEN AuthResult(<< "hmac", "mac_pass" >>, TRUE, "none", cipherText)
               ELSE AuthResult(<< "hmac", "mac_fail" >>, FALSE,
                               "HMAC verification failed", << >>)

MediaResult(ops, out) == [ops |-> ops, out |-> out]

\* AES-256-CBC with PKCS#7 over the authenticated cipherText; the result is
\* decrypted.toString('base64')
DecryptCipherText(v, imageData, cipherText) ==
  LET keyBuf == Base64Decode(imageData.encryption_key)
      ivBuf  == Base64Decode(imageData.iv)
  IN  IF v \in {"hmac10", "p3", "p2"} /\ Len(cipherText) % 16 # 0
      THEN MediaResult(<< "bad_length" >>, Fail("Ciphertext length not a multiple of 16"))
      ELSE LET dec == AesCbcDecrypt(keyBuf, ivBuf, cipherText)
           IN  IF ~dec.ok
               THEN MediaResult(<< "cbc" >>,
                      Fail(IF v = "p1" THEN dec.err ELSE "AES decryption failed"))
               ELSE MediaResult(<< "cbc", "unpad" >>, Ok(Base64Encode(dec.val)))

\* decryptWhatsAppImage from the fetch response on; cdn is [ok, body]
MediaAfterFetch_tryAnyway(v, imageData, cdn) ==
  IF ~cdn.ok THEN MediaResult(<< >>, Fail("Failed to fetch image from CDN"))
  ELSE LET a == Authenticate(v, imageData, cdn.body)
           d == DecryptCipherText(v, imageData,
                  IF a.ok THEN a.cipherText ELSE Take(cdn.body, Len(cdn.body) - (Len(cdn.body) % 16)))
       IN  MediaResult(a.ops \o d.ops, d.out)
\* a routine that verifies the fetched bytes a second time after a failed check
MediaAfterFetch_retry(v, imageData, cdn) ==
  IF ~cdn.ok THEN MediaResult(<< >>, Fail("Failed to fetch image from CDN"))
  ELSE LET a == Authenticate(v, imageData, cdn.body)
           b == Authenticate(v, imageData, cdn.body)
       IN  IF ~a.ok THEN MediaResult(a.ops \o b.ops, Fail(b.err))
           ELSE LET d == DecryptCipherText(v, imageData, a.cipherText)
                IN  MediaResult(a.ops \o d.ops, d.out)
\* a routine that works on the bytes it has when the body ends early
MediaAfterFetch_partial(v, imageData, cdn) ==
  IF cdn.arrival = "refused" THEN MediaResult(<< >>, Fail("fetch failed"))
  ELSE IF ~cdn.ok THEN MediaResult(<< >>, Fail("Failed to fetch image from CDN"))
  ELSE LET a == Authenticate(v, imageData, cdn.body)
       IN  IF ~a.ok THEN MediaResult(a.ops, Fail(a.err))
           ELSE LET d == DecryptCipherText(v, imageData, a.cipherText)
                IN  MediaResult(a.ops \o d.ops, d.out)
MediaAfterFetch(v, imageData, cdn) ==
  IF cdn.arrival = "refused" THEN MediaResult(<< >>, Fail("fetch failed"))
  ELSE IF ~cdn.ok THEN MediaResult(<< >>, Fail("Failed to fetch image from CDN"))
  ELSE IF cdn.arrival = "cut" THEN MediaResult(<< >>, Fail("terminated"))
  ELSE LET a == Authenticate(v, imageData, cdn.body)
       IN  IF ~a.ok THEN MediaResult(a.ops, Fail(a.err))
           ELSE LET d == DecryptCipherText(v, imageData, a.cipherText)
                IN  MediaResult(a.ops \o d.ops, d.out)

(***************************************************************************)
(* Business logic around the core: which response a decrypted body gets.   *)
(* The media reference data.product_image[0] is not spelled out in the     *)
(* payload text: the payload carries product_image as the marker 1 and the *)
(* reference itself is the variable imageData.  Message texts are          *)
(* abbreviated to "m<number>".                                             *)
(***************************************************************************)
Truthy(v) ==
  CASE v.t = "null" -> FALSE
    [] v.t = "bool" -> v.n = 1
    [] v.t = "num"  -> v.n # 0
    [] v.t = "str"  -> v.s # << >>
    [] OTHER        -> TRUE

\* value && value.trim()
NonBlank(v) == v.t = "str" /\ \E i \in 1..Len(v.s) : v.s[i] # 32

Msg(n) == JStr(<< 109 >> \o Digits(n))

\* the texts of the errors thrown by decryptWhatsAppImage and by the library
\* calls under it; ErrorText(e) stands for the text e in a message
ErrorTexts ==
  << "Missing cdn_url or encryption_metadata", "Invalid encryption_key length",
     "Invalid hmac_key length", "Invalid iv length", "Failed to fetch image from CDN",
     "Encrypted payload too small", "Encrypted hash mismatch", "HMAC verification failed",
     "Ciphertext length not a multiple of 16", "AES decryption failed",
     "Invalid key length", "Invalid initialization vector", "wrong final block length",
     "bad decrypt", "fetch failed", "terminated" >>
ErrorText(e) == << 58 >> \o Digits(CHOOSE i \in 1..Len(ErrorTexts) : ErrorTexts[i] = e)
Screen(name, data) == JObj(<< Member(Str_screen, JStr(name)), Member(Str_data, JObj(data)) >>)
ErrorScreen(name, n) == Screen(name, << Member(Str_error_message, Msg(n)) >>)

ActionOf(body) == Get(body, Str_action)
ScreenOf(body) == Get(body, Str_screen)
DataOf(body) == Get(body, Str_data)
IsAction(body, name) == ActionOf(body) = JStr(name)

\* a || b
Or(a, b) == IF Truthy(a) THEN a ELSE b

\* The lead fields of a POST body, each a JSON value with JNull for a field
\* the body does not have.
LeadFields(phoneNumber, chat_id, chatId, firstName) ==
  [phoneNumber |-> phoneNumber, chat_id |-> chat_id, chatId |-> chatId,
   firstName |-> firstName, first_name |-> JNull, email |-> JNull]
NoLeadFields == LeadFields(JNull, JNull, JNull, JNull)

\* a stored lead (enrichedLead); t is "lead", or "null" and "undefined" for the
\* two values a lookup returns when there is none.  timestamp is the time of
\* the call as a count of the calls so far.
Lead(phoneNumber, chat_id, chatId, timestamp) ==
  [t |-> "lead", phoneNumber |-> phoneNumber, chat_id |-> chat_id, chatId |-> chatId,
   timestamp |-> timestamp]
NullLead == [Lead(JNull, JNull, JNull, 0) EXCEPT !.t = "null"]
UndefinedLead == [Lead(JNull, JNull, JNull, 0) EXCEPT !.t = "undefined"]

\* a Map as the set of its << key, value >> entries
MapHas(map, key) == \E e \in map : e[1] = key
MapGet(map, key, undefined) ==
  IF MapHas(map, key) THEN (CHOOSE e \in map : e[1] = key)[2] ELSE undefined
MapSet(map, key, value) == {e \in map : e[1] # key} \cup {<< key, value >>}

\* const bspLeadStore = { latest: null, byPhone: new Map(), bySession: new Map(),
\* recent: [] }
NoLeads == [latest |-> NullLead, byPhone |-> {}, bySession |-> {}, recent |-> << >>]

\* the length bspLeadStore.recent is cut to
RecentCap == 100

\* the lead data handleBspLead builds from the body: the computed fields first,
\* then ...req.body, which overrides them with the body's own
LeadDataOf(body) ==
  [phoneNumber |-> IF body.phoneNumber # JNull THEN body.phoneNumber
                   ELSE Or(body.phoneNumber, body.chat_id),
   chatId      |-> IF body.chatId # JNull THEN body.chatId
                   ELSE Or(body.chatId, body.chat_id),
   chat_id     |-> body.chat_id]

\* storeBspLead(leadData) without the cut of recent
storeBspLead_noCap(store, leadData) ==
  LET phoneNumber  == Or(leadData.phoneNumber, leadData.chat_id)
      session      == Or(leadData.chatId, leadData.chat_id)
      enrichedLead == Lead(phoneNumber, leadData.chat_id, leadData.chatId,
                           store.latest.timestamp + 1)
  IN  [latest    |-> enrichedLead,
       byPhone   |-> IF Truthy(phoneNumber)
                     THEN MapSet(store.byPhone, phoneNumber, enrichedLead)
                     ELSE store.byPhone,
       bySession |-> IF Truthy(phoneNumber) /\ Truthy(session)
                     THEN MapSet(store.bySession, session, phoneNumber)
                     ELSE store.bySession,
       recent    |-> << enrichedLead >> \o store.recent]

\* storeBspLead(leadData) that maps the session before the phone check
storeBspLead_sessionFirst(store, leadData) ==
  LET phoneNumber  == Or(leadData.phoneNumber, leadData.chat_id)
      session      == Or(leadData.chatId, leadData.chat_id)
      enrichedLead == Lead(phoneNumber, leadData.chat_id, leadData.chatId,
                           store.latest.timestamp + 1)
      recent       == << enrichedLead >> \o store.recent
  IN  [latest    |-> enrichedLead,
       byPhone   |-> IF Truthy(leadData.phoneNumber)
                     THEN MapSet(store.byPhone, phoneNumber, enrichedLead)
                     ELSE store.byPhone,
       bySession |-> IF Truthy(session)
                     THEN MapSet(store.bySession, session, phoneNumber)
                     ELSE store.bySession,
       recent    |-> IF Len(recent) > RecentCap THEN Take(recent, RecentCap) ELSE recent]

\* storeBspLead(leadData)
storeBspLead(store, leadData) ==
  LET phoneNumber  == Or(leadData.phoneNumber, leadData.chat_id)
      session      == Or(leadData.chatId, leadData.chat_id)
      enrichedLead == Lead(phoneNumber, leadData.chat_id, leadData.chatId,
                           store.latest.timestamp + 1)
      recent       == << enrichedLead >> \o store.recent
  IN  [latest    |-> enrichedLead,
       byPhone   |-> IF Truthy(phoneNumber)
                     THEN MapSet(store.byPhone, phoneNumber, enrichedLead)
                     ELSE store.byPhone,
       bySession |-> IF Truthy(phoneNumber) /\ Truthy(session)
                     THEN MapSet(store.bySession, session, phoneNumber)
                     ELSE store.bySession,
       recent    |-> IF Len(recent) > RecentCap THEN Take(recent, RecentCap) ELSE recent]

\* getBspLead(identifier)
getBspLead(store, identifier) ==
  IF identifier = JStr(Str_latest) THEN store.latest
  ELSE IF MapHas(store.byPhone, identifier)
    THEN MapGet(store.byPhone, identifier, UndefinedLead)
  ELSE IF MapHas(store.bySession, identifier)
    THEN MapGet(store.byPhone, MapGet(store.bySession, identifier, JNull), UndefinedLead)
  ELSE NullLead

\* what handleBspLead answers and leaves in the store.  p0 (part_000) wants a
\* phone number or chat_id and a first name in the body; p3 wants a phone
\* number in the lead data it has built.
LeadAnswer(status, error, store) == [status |-> status, error |-> error, store |-> store]
handleBspLead(v, body, store) ==
  LET leadData == LeadDataOf(body)
  IN  IF v = "p0" /\ ~Truthy(body.phoneNumber) /\ ~Truthy(body.chat_id)
      THEN LeadAnswer(400, "MISSING_PHONE_NUMBER", store)
      ELSE IF v = "p0" /\ ~Truthy(body.firstName) /\ ~Truthy(body.first_name)
      THEN LeadAnswer(400, "MISSING_FIRST_NAME", store)
      ELSE IF v = "p3" /\ ~Truthy(leadData.phoneNumber)
      THEN LeadAnswer(400, "No phone number", store)
      ELSE LeadAnswer(200, "none", storeBspLead(store, leadData))

\* raw.replace(/\D/g, '') and the India prefix for ten digits
OnlyDigits(s) == SelectSeq(s, LAMBDA c : c >= 48 /\ c <= 57)
NormalizePhone(digits) == IF Len(digits) = 10 THEN << 57, 49 >> \o digits ELSE digits

\* the candidates of getUserPhone (p1) and getUserPhoneFromPayload, in order
PhoneCandidates(v, body) ==
  << Get(Get(body, Str_user), Str_wa_id), Get(Get(body, Str_user), Str_phone),
     Get(body, Str_phone_number), Get(body, Str_mobile_number),
     Get(DataOf(body), Str_phone_number) >>
  \o (IF v = "p1" THEN << >> ELSE << Get(DataOf(body), Str_user_phone) >>)
  \o << Get(DataOf(body), Str_mobile_number) >>

\* getUserPhone / getUserPhoneFromPayload; the empty sequence stands for null.
\* Only p3 falls back to the latest stored lead.
getUserPhoneFromPayload(v, body, store) ==
  LET found  == SelectSeq(PhoneCandidates(v, body), NonBlank)
      digits == IF found = << >> THEN << >> ELSE OnlyDigits(Head(found).s)
  IN  IF digits # << >> THEN NormalizePhone(digits)
      ELSE IF v = "p3" /\ Truthy(getBspLead(store, JStr(Str_latest)).phoneNumber)
        THEN NormalizePhone(OnlyDigits(getBspLead(store, JStr(Str_latest)).phoneNumber.s))
      ELSE << >>

\* handleComplete (p1): getUserPhone(decryptedBody) || digits of data.mobile_number
UserPhone(body) ==
  LET p == getUserPhoneFromPayload("p1", body, NoLeads)
      m == Get(DataOf(body), Str_mobile_number)
  IN  IF p # << >> THEN p ELSE IF m.t = "str" THEN OnlyDigits(m.s) ELSE << >>
HasPhone(body) == UserPhone(body) # << >>

\* the phone number the generated image is sent to, or is forwarded with,
\* once the media routine has returned out; empty when nothing is sent
Recipient(v, body, store, out, generated) ==
  LET m == Get(DataOf(body), Str_mobile_number)
      p == getUserPhoneFromPayload(v, body, store)
  IN  CASE ~out.ok -> << >>
        [] v = "hmac32" -> << >>
        [] v = "p3" -> p
        [] ~generated -> << >>
        [] v = "p1" -> NormalizePhone(UserPhone(body))
        [] OTHER -> IF p # << >> THEN p ELSE IF m.t = "str" THEN m.s ELSE << >>

\* the request reaches `await decryptWhatsAppImage(firstImage)`
WantsMedia(v, body) ==
  LET data == DataOf(body)
  IN  /\ ~IsAction(body, Str_ping)
      /\ ~IsAction(body, Str_error_notification)
      /\ data.t = "obj"
      /\ Truthy(Get(data, Str_product_image))
      /\ IF v = "p1"
         THEN IsAction(body, Str_complete) /\ HasPhone(body)
         ELSE /\ IsAction(body, Str_data_exchange)
              /\ NonBlank(Get(data, Str_product_category))
              /\ (v = "hmac10" => ScreenOf(body) = JStr(Str_COLLECT_IMAGE_SCENE))

HealthCheck(v) ==
  IF v = "hmac10"
  THEN JObj(<< Member(Str_data, JObj(<< Member(Str_status, JStr(Str_active)),
                                        Member(Str_timestamp, JNum(0)),
                                        Member(Str_version, JNum(1)) >>)) >>)
  ELSE JObj(<< Member(Str_data, JObj(<< Member(Str_status, JStr(Str_active)) >>)) >>)

\* a BACK that goes two screens back from FINAL_SUBMIT
BackScreen_twoBack(v, body) ==
  IF v = "hmac10" /\ ScreenOf(body) = JStr(Str_SUCCESS_SCREEN)
  THEN Screen(Str_COLLECT_IMAGE_SCENE, << >>)
  ELSE IF v = "hmac10" /\ ScreenOf(body) = JStr(Str_FINAL_SUBMIT)
  THEN Screen(Str_COLLECT_IMAGE_SCENE, << >>)
  ELSE Screen(Str_COLLECT_INFO, << >>)

\* the BACK branch of handleDataExchange: hmac10 goes one screen back, the
\* other copies go to COLLECT_INFO
BackScreen(v, body) ==
  IF v = "hmac10" /\ ScreenOf(body) = JStr(Str_SUCCESS_SCREEN)
  THEN Screen(Str_COLLECT_IMAGE_SCENE, << >>)
  ELSE IF v = "hmac10" /\ ScreenOf(body) = JStr(Str_FINAL_SUBMIT)
  THEN Screen(Str_SUCCESS_SCREEN, << >>)
  ELSE Screen(Str_COLLECT_INFO, << >>)

\* handleDataExchange on the paths that do not reach the media routine
DataExchangeNoMedia(v, body) ==
  LET data == DataOf(body)
      noImage    == ErrorScreen(Str_COLLECT_IMAGE_SCENE, 1)
      noCategory == ErrorScreen(Str_COLLECT_INFO, 2)
      noData     == ErrorScreen(Str_COLLECT_INFO, 3)
      imageScene ==
        IF data.t # "obj" THEN noData
        ELSE IF ~Truthy(Get(data, Str_product_image)) THEN noImage
        ELSE noCategory
  IN  IF IsAction(body, Str_INIT) THEN Screen(Str_COLLECT_INFO, << >>)
      ELSE IF v = "hmac10" /\ IsAction(body, Str_complete)
        THEN Screen(Str_SUCCESS_SCREEN,
                    << Member(Str_status, JStr(Str_completed)), Member(Str_message, Msg(4)),
                       Member(Str_final_data_received, JBool(TRUE)) >>)
      ELSE IF IsAction(body, Str_data_exchange) /\ v \in {"hmac32", "p3", "p2"} THEN imageScene
      ELSE IF IsAction(body, Str_data_exchange) /\ v = "p1" THEN
        IF ~Truthy(data) \/ data.t # "obj" THEN noData
        ELSE IF ~Truthy(Get(data, Str_product_image)) THEN noImage
        ELSE IF ~NonBlank(Get(data, Str_product_category)) THEN noCategory
        ELSE Screen(Str_SUCCESS_SCREEN, << >>)
      ELSE IF IsAction(body, Str_data_exchange) /\ ScreenOf(body) = JStr(Str_COLLECT_INFO) THEN
        IF ~NonBlank(Get(data, Str_product_category)) THEN noCategory
        ELSE Screen(Str_COLLECT_IMAGE_SCENE,
                    << Member(Str_mobile_number, Get(data, Str_mobile_number)),
                       Member(Str_product_category, Get(data, Str_product_category)) >>)
      ELSE IF IsAction(body, Str_data_exchange) /\ ScreenOf(body) = JStr(Str_COLLECT_IMAGE_SCENE)
        THEN imageScene
      ELSE IF IsAction(body, Str_data_exchange) /\ ScreenOf(body) = JStr(Str_SUCCESS_SCREEN)
        THEN Screen(Str_SUCCESS_SCREEN,
                    << Member(Str_status, JStr(Str_completed)), Member(Str_message, Msg(4)) >>)
      ELSE IF IsAction(body, Str_data_exchange) /\ ScreenOf(body) = JStr(Str_FINAL_SUBMIT)
        THEN Screen(Str_FINAL_SUBMIT,
                    << Member(Str_status, JStr(Str_submitted)), Member(Str_message, Msg(4)) >>)
      ELSE IF IsAction(body, Str_BACK) THEN BackScreen(v, body)
      ELSE IF v = "p1" THEN Screen(Str_COLLECT_INFO, << >>)
      ELSE ErrorScreen(Str_COLLECT_INFO, 5)

\* the response payload of a request that does not reach the media routine
PlainResponse(v, body) ==
  IF IsAction(body, Str_ping) THEN HealthCheck(v)
  ELSE IF IsAction(body, Str_error_notification)
    THEN JObj(<< Member(Str_data, JObj(<< Member(Str_acknowledged, JBool(TRUE)) >>)) >>)
  ELSE IF v = "p1" /\ IsAction(body, Str_complete)
    THEN JObj(<< Member(Str_status, JStr(Str_success)) >>)
  ELSE DataExchangeNoMedia(v, body)

\* what handleDataExchange (handleComplete in p1) starts once the media routine
\* has returned: the image generation, or in p3 the forwarding of the job;
\* nothing when the routine threw
GenerationOps(v, out) ==
  IF ~out.ok THEN << >> ELSE IF v = "p3" THEN << "forward" >> ELSE << "generate" >>

\* a handler that answers as if the media routine had returned an image
MediaResponse_successAnyway(v, out, generated) ==
  IF v = "p1" THEN JObj(<< Member(Str_status, JStr(Str_success)) >>)
  ELSE IF v = "p3" THEN Screen(Str_SUCCESS_SCREEN, << Member(Str_message, Msg(9)) >>)
  ELSE IF ~generated THEN ErrorScreen(Str_COLLECT_IMAGE_SCENE, 7)
  ELSE Screen(Str_SUCCESS_SCREEN, << Member(Str_image_url, Msg(8)) >>)

\* the response payload once decryptWhatsAppImage has returned or thrown;
\* generated tells whether the image generation that follows succeeded.  The
\* error screen quotes imageError.message; p3 forwards the job and answers
\* without waiting for the generation.
MediaResponse(v, out, generated) ==
  IF v = "p1" THEN JObj(<< Member(Str_status, JStr(Str_success)) >>)
  ELSE IF ~out.ok
    THEN Screen(Str_COLLECT_IMAGE_SCENE,
                << Member(Str_error_message, JStr(Msg(6).s \o ErrorText(out.err))) >>)
  ELSE IF v = "p3" THEN Screen(Str_SUCCESS_SCREEN, << Member(Str_message, Msg(9)) >>)
  ELSE IF ~generated THEN ErrorScreen(Str_COLLECT_IMAGE_SCENE, 7)
  ELSE Screen(Str_SUCCESS_SCREEN, << Member(Str_image_url, Msg(8)) >>)

(***************************************************************************)
(* The environment: what the remote platform sends, what the CDN holds.    *)
(***************************************************************************)
\* longest request nonce and longest media plaintext that are tried, and the
\* number of flow requests that are followed
MaxNonceLen == 16
MaxPlainLen == 17
MaxRequests == 2
\* the number of leads that are stored next to flow requests, and the number
\* of leads that are stored on the lead endpoint alone
MaxLeads == 1
MaxStored == 102

FlipBits == {0, 7}

\* AES-GCM as the sender computes it, without the receiver's checks
GcmSeal(key, iv, pt) ==
  LET ks == GcmStream(key, iv, Len(pt))
      ct == [i \in 1..Len(pt) |-> BitXor(pt[i], ks[i])]
  IN  ct \o GcmTag(key, iv, ct)

SessionKey == Pattern(3, 32)
NonceOf(n) == IF n = MaxNonceLen THEN [i \in 1..n |-> 0] ELSE Pattern(9, n)
NonceLens == {0, 1, 12, MaxNonceLen}

PingPayload == JObj(<< Member(Str_action, JStr(Str_ping)) >>)
ImagePayload ==
  JObj(<< Member(Str_action, JStr(Str_data_exchange)),
          Member(Str_screen, JStr(Str_COLLECT_IMAGE_SCENE)),
          Member(Str_data, JObj(<< Member(Str_product_image, JNum(1)),
                                   Member(Str_product_category, JStr(Str_a)) >>)) >>)
CompletePayload ==
  JObj(<< Member(Str_action, JStr(Str_complete)),
          Member(Str_data, JObj(<< Member(Str_product_image, JNum(1)),
                                   Member(Str_mobile_number, JStr(<< 57 >>)) >>)) >>)
InfoPayload ==
  JObj(<< Member(Str_action, JStr(Str_data_exchange)),
          Member(Str_screen, JStr(Str_COLLECT_INFO)),
          Member(Str_data, JObj(<< Member(Str_mobile_number, JStr(<< 57 >>)),
                                   Member(Str_product_category, JStr(Str_tricky)) >>)) >>)
\* an image request that names the user's phone itself
ImagePhonePayload ==
  JObj(<< Member(Str_action, JStr(Str_data_exchange)),
          Member(Str_screen, JStr(Str_COLLECT_IMAGE_SCENE)),
          Member(Str_data, JObj(<< Member(Str_product_image, JNum(1)),
                                   Member(Str_product_category, JStr(Str_a)),
                                   Member(Str_mobile_number, JStr(<< 57 >>)) >>)) >>)
\* the screens of the flow, last one first, and a BACK from a screen
FlowScreens == << Str_FINAL_SUBMIT, Str_SUCCESS_SCREEN, Str_COLLECT_IMAGE_SCENE, Str_COLLECT_INFO >>
BackPayload(screen) ==
  JObj(<< Member(Str_action, JStr(Str_BACK)), Member(Str_screen, JStr(screen)) >>)

RequestPayloads ==
  { PingPayload, InfoPayload,
    JObj(<< Member(Str_action, JStr(Str_INIT)) >>),
    JObj(<< Member(Str_action, JStr(Str_BACK)), Member(Str_screen, JStr(Str_tricky)) >>),
    ImagePayload, CompletePayload }

\* the bytes of {"action":"?"} with the byte 0xFF, which no UTF-8 text
\* contains, in the place of the question mark
BadUtf8Text ==
  << 123, 34 >> \o Str_action \o << 34, 58, 34, 255, 34, 125 >>

\* request plaintexts: the payloads as JSON text, a text that is not JSON and
\* bytes that are not UTF-8
Plaintexts ==
  {Utf8Encode(JsonStringify(p)) : p \in RequestPayloads} \cup {<< 123 >>, BadUtf8Text}

\* tamper names one bit changed in transit; omit names the envelope field the
\* body lacks ("all": none of the three is there); lead holds the lead fields
\* of the body
NoTamper == [field |-> "none", pos |-> 0, bit |-> 0]
Sender(key, nonce, plain, tamper) ==
  [key |-> key, nonce |-> nonce, plain |-> plain, tamper |-> tamper, omit |-> "none",
   lead |-> NoLeadFields]
NoSender == Sender(<< >>, << >>, << >>, NoTamper)

\* the query of a GET: hub.mode, hub.verify_token and hub.challenge, each a
\* string or JNull for a parameter that is not there; debugLeads says that
\* the URL contains '/debug-leads'
Query(mode, token, challenge, debugLeads) ==
  [mode |-> mode, token |-> token, challenge |-> challenge, debugLeads |-> debugLeads]
NoQuery == Query(JNull, JNull, JNull, FALSE)

\* process.env.VERIFY_TOKEN
Str_subscribe == << 115, 117, 98, 115, 99, 114, 105, 98, 101 >>
Str_t == << 116 >>
VerifyToken == Str_t

\* the queries that arrive
Queries ==
  { Query(mode, token, challenge, debugLeads) :
      mode \in {JStr(Str_subscribe), JStr(Str_a), JNull},
      token \in {JStr(VerifyToken), JStr(Str_a), JNull},
      challenge \in {JStr(<< 49, 50 >>), JStr(<< >>), JNull},
      debugLeads \in BOOLEAN }

\* the queries that are also tried after a flow request or a lead
PlainQueries ==
  { Query(JStr(Str_subscribe), token, JStr(<< 49, 50 >>), FALSE) :
      token \in {JStr(VerifyToken), JStr(Str_a)} }

\* is the envelope field f left out of the body
Omitted(sc, f) == sc.omit \in {f, "all"}

\* the three binary envelope fields as an honest sender produces them
WrappedKey(sc) == RsaOaepEncrypt(ServerKeyDer, sc.key)
FlowData(sc) == GcmSeal(sc.key, sc.nonce, sc.plain)

FieldLen(sc, f) ==
  CASE f = "key" -> Len(WrappedKey(sc)) [] f = "data" -> Len(FlowData(sc)) [] OTHER -> Len(sc.nonce)

\* every bit in FlipBits of every byte of the three fields; the flow data of
\* the short payload only
Tampers(sc) ==
  UNION { [field : {f}, pos : 1..FieldLen(sc, f), bit : FlipBits] :
            f \in IF sc.plain = Utf8Encode(JsonStringify(PingPayload))
                  THEN {"key", "data", "iv"} ELSE {"key", "iv"} }

\* the senders that are also tried while the server key is misconfigured or a
\* lead is stored
PlainSenders ==
  { Sender(SessionKey, NonceOf(12), Utf8Encode(JsonStringify(p)), NoTamper) :
      p \in {PingPayload, ImagePayload, ImagePhonePayload} }

\* what arrives: honest envelopes under keys of several lengths and nonces of
\* several lengths, envelopes with one bit of one field changed in transit,
\* and bodies that lack envelope fields
Senders ==
  LET honest == { Sender(Pattern(3, l[1]), NonceOf(l[2]), pt, NoTamper) :
                    l \in ({16, 31, 32} \X {12}) \cup ({32} \X NonceLens),
                    pt \in Plaintexts }
      base   == { Sender(SessionKey, NonceOf(nl), Utf8Encode(JsonStringify(p)), NoTamper) :
                    nl \in {12, MaxNonceLen}, p \in {PingPayload, ImagePayload} }
      short  == { [sc EXCEPT !.omit = f] :
                    sc \in PlainSenders, f \in {"key", "data", "iv", "all"} }
      back   == { Sender(SessionKey, NonceOf(12), Utf8Encode(JsonStringify(BackPayload(FlowScreens[i]))),
                         NoTamper) : i \in 1..Len(FlowScreens) }
  IN  honest \cup PlainSenders \cup short \cup back
      \cup UNION { { [sc EXCEPT !.tamper = t] : t \in Tampers(sc) } : sc \in base }

Tampered(bytes, t, f) ==
  IF t.field = f /\ t.pos >= 1 /\ t.pos <= Len(bytes) THEN FlipBit(bytes, t.pos, t.bit) ELSE bytes

\* the POST body { encrypted_aes_key, encrypted_flow_data, initial_vector }
EnvelopeOf(sc) ==
  [encrypted_aes_key   |-> IF Omitted(sc, "key") THEN << >>
                           ELSE Base64Encode(Tampered(WrappedKey(sc), sc.tamper, "key")),
   encrypted_flow_data |-> IF Omitted(sc, "data") THEN << >>
                           ELSE Base64Encode(Tampered(FlowData(sc), sc.tamper, "data")),
   initial_vector      |-> IF Omitted(sc, "iv") THEN << >>
                           ELSE Base64Encode(Tampered(sc.nonce, sc.tamper, "iv")),
   lead                |-> sc.lead,
   query               |-> NoQuery]
NoEnvelope ==
  [encrypted_aes_key |-> << >>, encrypted_flow_data |-> << >>, initial_vector |-> << >>,
   lead |-> NoLeadFields, query |-> NoQuery]

\* the two tests of the combined handler on a POST body.  A field counts as
\* there when it is not undefined; an envelope field the body lacks is the
\* empty string of NoEnvelope.
isBspLead(body) ==
  \/ body.lead.phoneNumber # JNull
  \/ body.lead.firstName # JNull
  \/ body.lead.email # JNull
  \/ body.lead.chat_id # JNull
  \/ body.lead.first_name # JNull
isWhatsAppFlow(body) ==
  \/ body.encrypted_aes_key # << >>
  \/ body.encrypted_flow_data # << >>
  \/ body.initial_vector # << >>

\* a routing that looks at the lead fields only
RoutedToLead_anyLeadField(v, body) == v = "p3" /\ isBspLead(body)

\* is the POST body handed to handleBspLead: in p3 only, 'if (isBspLead &&
\* !isWhatsAppFlow)'
RoutedToLead(v, body) == v = "p3" /\ isBspLead(body) /\ ~isWhatsAppFlow(body)

\* the lead bodies that are posted: a phone number; a chat_id only; a phone
\* number and a chatId; an empty phone number with a chat_id; a chatId that is
\* another lead's phone number; a first name only; a phone number without
\* first name
Str_7 == << 55 >>
Str_8 == << 56 >>
Str_s == << 115 >>
LeadBodies ==
  { LeadFields(JStr(Str_7), JNull, JNull, JStr(Str_a)),
    LeadFields(JNull, JStr(Str_8), JNull, JStr(Str_a)),
    LeadFields(JStr(Str_7), JNull, JStr(Str_s), JStr(Str_a)),
    LeadFields(JStr(<< >>), JStr(Str_8), JNull, JStr(Str_a)),
    LeadFields(JStr(Str_8), JNull, JStr(Str_7), JStr(Str_a)),
    LeadFields(JNull, JNull, JNull, JStr(Str_a)),
    LeadFields(JStr(Str_7), JNull, JNull, JNull) }

\* POST bodies with lead fields: without any envelope field, and with all
\* three of them
LeadSenders ==
  LET ping == Sender(SessionKey, NonceOf(12), Utf8Encode(JsonStringify(PingPayload)), NoTamper)
  IN  { [sc EXCEPT !.lead = b] : sc \in {ping, [ping EXCEPT !.omit = "all"]}, b \in LeadBodies }

\* A media scenario: how the blob behind cdn_url was made and what the
\* reference says about it.  kind is
\*   "canon"     cipherText || first 10 bytes of HMAC(macKey, nonce || cipherText)
\*   "full_ct"   cipherText || HMAC(macKey, cipherText), all 32 bytes
\*   "full_ivct" cipherText || HMAC(macKey, nonce || cipherText), all 32 bytes
\*   "raw"       pLen arbitrary bytes
\*   "ct_odd"    17 arbitrary bytes of cipherText with their correct 10-byte trailer
\*   "bad_pad"   a block whose plaintext ends in a zero byte, correct 10-byte trailer
\*   "pad_big"   a block whose plaintext ends in the byte 17, correct 10-byte trailer
\*   "pad_mix"   a block whose plaintext ends in 5, 2, correct 10-byte trailer
\*   "odd_full", "pad_full"  as "ct_odd" and "bad_pad" with the whole 32-byte
\*               HMAC(macKey, nonce || cipherText) as trailer
\* hash is "none", "match" or "bad" (encrypted_hash), tPos > 0 names the byte of
\* the blob whose bit tBit was flipped after the blob was made.  fetchOk is
\* response.ok; arrival tells how the fetch went: "complete", "refused" (fetch()
\* rejects, there is no response) or "cut" (the body ends early and
\* response.arrayBuffer() rejects).
Scenario(kind, pLen, keyLen, macLen, ivLen, hash, tPos, tBit, fetchOk, url) ==
  [kind |-> kind, pLen |-> pLen, keyLen |-> keyLen, macLen |-> macLen, ivLen |-> ivLen,
   hash |-> hash, tPos |-> tPos, tBit |-> tBit, fetchOk |-> fetchOk, url |-> url,
   arrival |-> "complete"]
NoScenario == Scenario("none", 0, 0, 0, 0, "none", 0, 0, FALSE, FALSE)

CipherKeyOf(sc) == Pattern(21, sc.keyLen)
MacKeyOf(sc) == Pattern(77, sc.macLen)
MediaNonceOf(sc) == Pattern(140, sc.ivLen)
PlainOf(sc) == Pattern(60, sc.pLen)

\* the last two bytes of the unpadded final block of the kinds with bad padding
BadTail(kind) ==
  CASE kind = "pad_big" -> << 17, 17 >>
    [] kind = "pad_mix" -> << 5, 2 >>
    [] OTHER            -> << 0, 0 >>

CipherTextOf(sc) ==
  CASE sc.kind \in {"ct_odd", "odd_full"} -> Pattern(33, 17)
    [] sc.kind \in {"bad_pad", "pad_big", "pad_mix", "pad_full"} ->
         CbcEncryptBlocks(CipherKeyOf(sc), MediaNonceOf(sc),
                          Pattern(60, 14) \o BadTail(sc.kind))
    [] OTHER -> AesCbcEncrypt(CipherKeyOf(sc), MediaNonceOf(sc), PlainOf(sc))

\* the blob as made, before any change in transit
MadeBlob(sc) ==
  LET ct == CipherTextOf(sc)
  IN  CASE sc.kind = "raw"       -> Pattern(5, sc.pLen)
        [] sc.kind = "full_ct"   -> ct \o HmacSha256(MacKeyOf(sc), ct)
        [] sc.kind \in {"full_ivct", "odd_full", "pad_full"} ->
             ct \o HmacSha256(MacKeyOf(sc), MediaNonceOf(sc) \o ct)
        [] OTHER -> ct \o Take(HmacSha256(MacKeyOf(sc), MediaNonceOf(sc) \o ct), 10)

BlobOf(sc) == IF sc.tPos > 0 THEN FlipBit(MadeBlob(sc), sc.tPos, sc.tBit) ELSE MadeBlob(sc)

ImageDataOf(sc) ==
  [cdn_url        |-> sc.url,
   encryption_key |-> Base64Encode(CipherKeyOf(sc)),
   hmac_key       |-> Base64Encode(MacKeyOf(sc)),
   iv             |-> Base64Encode(MediaNonceOf(sc)),
   encrypted_hash |-> CASE sc.hash = "match" -> Base64Encode(Sha256(MadeBlob(sc)))
                        [] sc.hash = "bad"   -> Base64Encode(Sha256(<< 0 >>))
                        [] OTHER             -> << >>]
NoImageData ==
  [cdn_url |-> FALSE, encryption_key |-> << >>, hmac_key |-> << >>, iv |-> << >>,
   encrypted_hash |-> << >>]

\* the outcome of the fetch: response.ok, how the body arrived and the bytes
\* that were received
CdnOf(sc) ==
  [ok |-> sc.fetchOk, arrival |-> sc.arrival,
   body |-> IF sc.arrival = "cut" THEN Take(BlobOf(sc), Len(BlobOf(sc)) \div 2)
            ELSE BlobOf(sc)]

PlainLens == {0, 1, 15, 16, MaxPlainLen}
BadLengths == { << 16, 32, 16 >>, << 33, 32, 16 >>, << 32, 31, 16 >>, << 32, 33, 16 >>,
                << 32, 32, 12 >>, << 32, 32, 17 >> }
BlobLen(kind, pLen) ==
  (pLen - (pLen % 16)) + 16 + (IF kind = "canon" THEN 10 ELSE 32)

MediaScenarios ==
  LET whole == { Scenario("canon", n, 32, 32, 16, h, 0, 0, TRUE, TRUE) :
                   n \in PlainLens, h \in {"none", "match", "bad"} }
      other == { Scenario(k, n, 32, 32, 16, "none", 0, 0, TRUE, TRUE) :
                   k \in {"full_ct", "full_ivct"}, n \in {1, MaxPlainLen} }
      badLen == { Scenario(k, 1, l[1], l[2], l[3], "none", 0, 0, TRUE, TRUE) :
                   k \in {"canon", "full_ivct"}, l \in BadLengths }
      flips == UNION { { Scenario("canon", l[1], 32, 32, 16, l[2], p, b, TRUE, TRUE) :
                           p \in 1..BlobLen("canon", l[1]), b \in FlipBits } :
                       l \in {<< 1, "none" >>, << 1, "match" >>, << MaxPlainLen, "none" >>} }
      raw   == { Scenario("raw", n, 32, 32, 16, "none", 0, 0, TRUE, TRUE) :
                   n \in {0, 9, 10, 11, 32, 33} }
      odd   == { Scenario(k, 0, 32, 32, 16, "none", 0, 0, TRUE, TRUE) :
                   k \in {"ct_odd", "bad_pad", "pad_big", "pad_mix", "odd_full", "pad_full"} }
      lost  == { Scenario("canon", 1, 32, 32, 16, "none", 0, 0, FALSE, TRUE),
                 Scenario("canon", 1, 32, 32, 16, "none", 0, 0, TRUE, FALSE),
                 [Scenario("canon", 1, 32, 32, 16, "none", 0, 0, FALSE, TRUE)
                    EXCEPT !.arrival = "refused"],
                 [Scenario("canon", 1, 32, 32, 16, "none", 0, 0, TRUE, TRUE)
                    EXCEPT !.arrival = "cut"],
                 [Scenario("full_ivct", 1, 32, 32, 16, "none", 0, 0, TRUE, TRUE)
                    EXCEPT !.arrival = "cut"] }
  IN  whole \cup other \cup badLen \cup flips \cup raw \cup odd \cup lost

\* the media scenarios that the background job of p2, a request after the
\* first and a request after a lead are followed on
JobScenarios ==
  { sc \in MediaScenarios :
      \/ sc.kind = "canon" /\ sc.pLen = 1 /\ sc.hash = "none" /\ sc.tPos \in {0, 1}
           /\ sc.tBit = 0
      \/ sc.kind = "bad_pad" }

(***************************************************************************)
(* The handler as a state machine, one request at a time.                  *)
(*   pc: "idle" -> "decrypt" -> "dispatch" -> ["fetch" ->] "encrypt" -> "done"  *)
(* for a flow request; every other request goes from "idle" to "done" in   *)
(* one step.  method is the method of the request being handled.  sender   *)
(* and origin record what the environment did (the request as sent, the    *)
(* media scenario); mediaOps and gcmOps record the steps the handler       *)
(* performed for the request, in order; recipient is the phone number the  *)
(* generated image goes to; served counts the flow requests that have been *)
(* answered.  bspLeadStore is the module-scope lead store of p3: it is the *)
(* one variable that outlives a request.                                   *)
(***************************************************************************)
VARIABLES variant, privateKeyPem, keyImports, bspLeadStore, job, served, pc, method, req,
          sender, session, origin, imageData, mediaOps, mediaOut, recipient, responsePayload,
          res, gcmOps

vars == << variant, privateKeyPem, keyImports, bspLeadStore, job, served, pc, method, req,
           sender, session, origin, imageData, mediaOps, mediaOut, recipient, responsePayload,
           res, gcmOps >>

\* everything scoped to the flow request being handled, but pc, method and res
flowVars == << req, sender, session, origin, imageData, mediaOps, mediaOut, recipient,
               responsePayload, gcmOps >>

NoResponse == [status |-> 0, body |-> << >>, error |-> "none"]
NoMediaOut == [ok |-> FALSE, val |-> << >>, err |-> "none"]

\* a PRIVATE_KEY that is set but is not a PKCS8 key
InvalidKeyPem == Base64Encode(<< 1, 2, 3 >>)
KeyConfigs == {ServerKeyPem, << >>, InvalidKeyPem}

\* validateEnvironmentVars(): PRIVATE_KEY is set (the other variables are)
validateEnvironmentVars(pem) == ~Missing(pem)

\* res.status(500).json(...) after validateEnvironmentVars() threw
ConfigFailure(v) ==
  [status |-> 500, body |-> << >>,
   error |-> IF v = "p1" THEN "Server configuration error" ELSE "Internal Server Error"]

\* res.status(...).json({ error: ... }) of the catch block around the POST
\* branch; error stands for the error.message that the body quotes
ErrorResponse(v, e) ==
  [status |-> IF v = "hmac10" THEN 400 ELSE 500, body |-> << >>, error |-> e]

\* res.status(200) with a body that is not an encrypted flow response
Plain200 == [status |-> 200, body |-> << 1 >>, error |-> "none"]

\* the background job of p2 (processImageGenerationInBackground).  state is
\* "none", "running" (the function has been called and awaits the media
\* routine) or "finished"; origin is the media scenario, ops the steps of the
\* media routine, out its result, toPhone the number found in the request,
\* outcome "completed", "media_failed" or "generation_failed", and unhandled
\* tells whether an error left the job uncaught.
NoJob ==
  [state |-> "none", origin |-> NoScenario, ops |-> << >>, out |-> NoMediaOut,
   toPhone |-> << >>, outcome |-> "none", unhandled |-> FALSE]

\* the screen p2 returns right after it has started the job
BackgroundResponse == Screen(Str_SUCCESS_SCREEN, << Member(Str_image_url, Msg(10)) >>)

\* how the job ends: every error is caught in the function itself
BackgroundOutcome_noCatch(out, generated) ==
  [outcome |-> IF ~out.ok THEN "media_failed"
               ELSE IF ~generated THEN "generation_failed" ELSE "completed",
   unhandled |-> ~out.ok \/ ~generated]
BackgroundOutcome(out, generated) ==
  [outcome |-> IF ~out.ok THEN "media_failed"
               ELSE IF ~generated THEN "generation_failed" ELSE "completed",
   unhandled |-> FALSE]

Init ==
  /\ variant \in Variants
  /\ privateKeyPem \in KeyConfigs
  /\ keyImports = 0
  /\ bspLeadStore = NoLeads
  /\ job = NoJob
  /\ served = 0
  /\ pc = "idle"
  /\ method = "none"
  /\ req = NoEnvelope
  /\ sender = NoSender
  /\ session = NoSession
  /\ origin = NoScenario
  /\ imageData = NoImageData
  /\ mediaOps = << >>
  /\ mediaOut = NoMediaOut
  /\ recipient = << >>
  /\ responsePayload = JNull
  /\ res = NoResponse
  /\ gcmOps = << >>

\* the handler answers a request without reaching the flow branch
Answer(m, response) ==
  /\ pc = "idle"
  /\ pc' = "done"
  /\ method' = m
  /\ res' = response
  /\ UNCHANGED << variant, privateKeyPem, keyImports, job, served, flowVars >>

\* OPTIONS: answered before the environment is validated (p2 exports GET and
\* POST only)
Preflight ==
  /\ variant # "p2"
  /\ Answer("OPTIONS", [status |-> 200, body |-> << >>, error |-> "none"])
  /\ UNCHANGED bspLeadStore

\* a handshake that does not compare the token
VerifyAnswer_noTokenCheck(v, pem, query) ==
  IF v = "p3" /\ query.debugLeads THEN Plain200
  ELSE IF ~validateEnvironmentVars(pem) THEN ConfigFailure(v)
  ELSE IF query.mode = JStr(Str_subscribe) /\ Truthy(query.challenge)
    THEN [status |-> 200, body |-> query.challenge.s, error |-> "none"]
  ELSE [status |-> 403, body |-> << >>, error |-> "Forbidden"]

\* what a GET is answered: p3 answers a URL with '/debug-leads' before
\* anything else; then the environment is validated; then the handshake,
\* 'mode === 'subscribe' && token === verifyToken && challenge'
VerifyAnswer(v, pem, query) ==
  IF v = "p3" /\ query.debugLeads THEN Plain200
  ELSE IF ~validateEnvironmentVars(pem) THEN ConfigFailure(v)
  ELSE IF /\ query.mode = JStr(Str_subscribe)
          /\ query.token = JStr(VerifyToken)
          /\ Truthy(query.challenge)
    THEN [status |-> 200, body |-> query.challenge.s, error |-> "none"]
  ELSE [status |-> 403, body |-> << >>, error |-> "Forbidden"]

\* GET: the webhook verification handshake
Verify(query) ==
  /\ pc = "idle"
  /\ query.debugLeads => variant = "p3"
  /\ (served > 0 \/ bspLeadStore # NoLeads) => query \in PlainQueries
  /\ pc' = "done"
  /\ method' = "GET"
  /\ req' = [NoEnvelope EXCEPT !.query = query]
  /\ res' = VerifyAnswer(variant, privateKeyPem, query)
  /\ UNCHANGED << variant, privateKeyPem, keyImports, bspLeadStore, job, served, sender,
                  session, origin, imageData, mediaOps, mediaOut, recipient, responsePayload,
                  gcmOps >>

\* any other method
NotAllowed ==
  /\ variant # "p2"
  /\ Answer("PUT", IF ~validateEnvironmentVars(privateKeyPem) THEN ConfigFailure(variant)
                   ELSE [status |-> 405, body |-> << >>, error |-> "Method Not Allowed"])
  /\ UNCHANGED bspLeadStore

\* hmac10: a POST whose body.object is 'whatsapp_business_account', here with
\* no entries, is handled by handleMessageWebhook
MessageWebhook ==
  /\ variant = "hmac10"
  /\ Answer("POST", IF ~validateEnvironmentVars(privateKeyPem) THEN ConfigFailure(variant)
                    ELSE Plain200)
  /\ UNCHANGED bspLeadStore

\* p3: a POST with lead fields and no envelope field is handled by
\* handleBspLead, before the environment is validated
BspLead(sc) ==
  /\ pc = "idle"
  /\ RoutedToLead(variant, EnvelopeOf(sc))
  /\ Len(bspLeadStore.recent) < MaxLeads
  /\ LET answer == handleBspLead(variant, sc.lead, bspLeadStore)
     IN  /\ res' = [status |-> answer.status,
                    body   |-> IF answer.status = 200 THEN << 1 >> ELSE << >>,
                    error  |-> answer.error]
         /\ bspLeadStore' = answer.store
  /\ pc' = "done"
  /\ method' = "POST"
  /\ req' = EnvelopeOf(sc)
  /\ UNCHANGED << variant, privateKeyPem, keyImports, job, served, sender, session, origin,
                  imageData, mediaOps, mediaOut, recipient, responsePayload, gcmOps >>

\* a POST with an envelope arrives; the environment is validated first
Receive(sc) ==
  /\ pc = "idle"
  /\ ~RoutedToLead(variant, EnvelopeOf(sc))
  /\ served < MaxRequests
  /\ (privateKeyPem # ServerKeyPem \/ bspLeadStore # NoLeads \/ served > 0 \/ variant = "p2")
       => sc \in PlainSenders \cup LeadSenders
  /\ job.state # "running"
  /\ job' = NoJob
  /\ method' = "POST"
  /\ req' = EnvelopeOf(sc)
  /\ sender' = sc
  /\ IF validateEnvironmentVars(privateKeyPem)
     THEN pc' = "decrypt" /\ res' = res
     ELSE pc' = "done" /\ res' = ConfigFailure(variant)
  /\ UNCHANGED << variant, privateKeyPem, keyImports, bspLeadStore, served, session, origin,
                  imageData, mediaOps, mediaOut, recipient, responsePayload, gcmOps >>

\* importPrivateKey and decryptRequest; a throw ends the request in the catch block
DecryptStep ==
  /\ pc = "decrypt"
  /\ LET key == importPrivateKey(privateKeyPem)
         r   == IF key.ok THEN decryptRequest(req, key.val) ELSE SessionFail(key.err, << >>)
     IN  /\ session' = r
         /\ keyImports' = keyImports + 1
         /\ gcmOps' = r.gcm
         /\ IF r.ok
            THEN pc' = "dispatch" /\ res' = res
            ELSE pc' = "done" /\ res' = ErrorResponse(variant, r.err)
  /\ UNCHANGED << variant, privateKeyPem, bspLeadStore, job, served, method, req, sender,
                  origin, imageData, mediaOps, mediaOut, recipient, responsePayload >>

\* ping, error_notification and the handleDataExchange paths without media
DispatchPlain ==
  /\ pc = "dispatch"
  /\ ~WantsMedia(variant, session.decryptedBody)
  /\ responsePayload' = PlainResponse(variant, session.decryptedBody)
  /\ pc' = "encrypt"
  /\ UNCHANGED << variant, privateKeyPem, keyImports, bspLeadStore, job, served, method, req, sender, session,
                  origin, imageData, mediaOps, mediaOut, recipient, res, gcmOps >>

\* decryptWhatsAppImage up to `await fetch(cdn_url)`
MediaBegin(sc) ==
  /\ pc = "dispatch"
  /\ variant # "p2"
  /\ (served > 0 \/ bspLeadStore # NoLeads) => sc \in JobScenarios
  /\ WantsMedia(variant, session.decryptedBody)
  /\ origin' = sc
  /\ imageData' = ImageDataOf(sc)
  /\ LET chk == MediaValidate(variant, ImageDataOf(sc))
     IN  IF chk.ok
         THEN /\ mediaOps' = << "validated", "fetch" >>
              /\ pc' = "fetch"
              /\ UNCHANGED << mediaOut, responsePayload >>
         ELSE /\ mediaOps' = << "invalid" >>
              /\ mediaOut' = chk
              /\ responsePayload' = MediaResponse(variant, chk, FALSE)
              /\ pc' = "encrypt"
  /\ UNCHANGED << variant, privateKeyPem, keyImports, bspLeadStore, job, served, method, req, sender, session,
                  recipient, res, gcmOps >>

\* the fetch returns; the rest of decryptWhatsAppImage and of handleDataExchange
FetchReturn(generated) ==
  /\ pc = "fetch"
  /\ LET m == MediaAfterFetch(variant, imageData, CdnOf(origin))
     IN  /\ mediaOps' = mediaOps \o m.ops \o GenerationOps(variant, m.out)
         /\ mediaOut' = m.out
         /\ responsePayload' = MediaResponse(variant, m.out, m.out.ok /\ generated)
         /\ recipient' = Recipient(variant, session.decryptedBody, bspLeadStore, m.out,
                                   generated)
  /\ pc' = "encrypt"
  /\ UNCHANGED << variant, privateKeyPem, keyImports, bspLeadStore, job, served, method, req, sender, session,
                  origin, imageData, res, gcmOps >>

\* p2: handleDataExchange calls processImageGenerationInBackground without
\* awaiting it and returns the success screen; the job runs up to the await of
\* the media routine
BackgroundBegin(sc) ==
  /\ pc = "dispatch"
  /\ variant = "p2"
  /\ WantsMedia(variant, session.decryptedBody)
  /\ job' = [NoJob EXCEPT
               !.state = "running",
               !.origin = sc,
               !.ops = IF MediaValidate(variant, ImageDataOf(sc)).ok
                       THEN << "validated", "fetch" >> ELSE << "invalid" >>,
               !.toPhone = getUserPhoneFromPayload(variant, session.decryptedBody, NoLeads)]
  /\ responsePayload' = BackgroundResponse
  /\ pc' = "encrypt"
  /\ UNCHANGED << variant, privateKeyPem, keyImports, bspLeadStore, served, method, req,
                  sender, session, origin, imageData, mediaOps, mediaOut, recipient, res,
                  gcmOps >>

\* p2: the media routine of the job returns or throws, the generation follows,
\* and the job ends in its own try/catch, whatever the handler is doing
BackgroundReturn(generated) ==
  /\ job.state = "running"
  /\ LET chk == MediaValidate(variant, ImageDataOf(job.origin))
         m   == IF chk.ok
                THEN MediaAfterFetch(variant, ImageDataOf(job.origin), CdnOf(job.origin))
                ELSE MediaResult(<< >>, chk)
         e   == BackgroundOutcome(m.out, generated)
     IN  job' = [job EXCEPT
                   !.state = "finished",
                   !.ops = job.ops \o m.ops \o GenerationOps(variant, m.out),
                   !.out = m.out,
                   !.outcome = e.outcome,
                   !.unhandled = e.unhandled]
  /\ UNCHANGED << variant, privateKeyPem, keyImports, bspLeadStore, served, pc, method, res,
                  flowVars >>

\* encryptResponse and res.status(200).send(encryptedResponse)
EncryptStep ==
  /\ pc = "encrypt"
  /\ LET r == encryptResponse(responsePayload, session.aesKeyBuffer, session.initialVectorBuffer)
     IN  /\ gcmOps' = gcmOps \o r.gcm
         /\ res' = IF r.ok THEN [status |-> 200, body |-> r.val, error |-> "none"]
                   ELSE ErrorResponse(variant, r.err)
  /\ pc' = "done"
  /\ UNCHANGED << variant, privateKeyPem, keyImports, bspLeadStore, job, served, method, req, sender, session,
                  origin, imageData, mediaOps, mediaOut, recipient, responsePayload >>

\* the handler has returned: everything scoped to the request is gone
Finish ==
  /\ pc = "done"
  /\ pc' = "idle"
  /\ method' = "none"
  /\ req' = NoEnvelope
  /\ sender' = NoSender
  /\ session' = NoSession
  /\ origin' = NoScenario
  /\ imageData' = NoImageData
  /\ mediaOps' = << >>
  /\ mediaOut' = NoMediaOut
  /\ recipient' = << >>
  /\ responsePayload' = JNull
  /\ res' = NoResponse
  /\ gcmOps' = << >>
  /\ served' = IF sender # NoSender THEN served + 1 ELSE served
  /\ UNCHANGED << variant, privateKeyPem, keyImports, bspLeadStore, job >>

Next ==
  \/ Preflight
  \/ \E query \in Queries : Verify(query)
  \/ NotAllowed
  \/ MessageWebhook
  \/ \E sc \in LeadSenders : BspLead(sc)
  \/ \E sc \in Senders \cup LeadSenders : Receive(sc)
  \/ DecryptStep
  \/ DispatchPlain
  \/ \E sc \in MediaScenarios : MediaBegin(sc)
  \/ \E generated \in BOOLEAN : FetchReturn(generated)
  \/ \E sc \in JobScenarios : BackgroundBegin(sc)
  \/ \E generated \in BOOLEAN : BackgroundReturn(generated)
  \/ EncryptStep
  \/ Finish

Spec == Init /\ [][Next]_vars

(***************************************************************************)
(* The lead endpoint                                                       *)
(*                                                                         *)
(* part_000 is a handler of its own for the leads: a POST stores a lead, a *)
(* GET with ?identifier looks one up.  It shares storeBspLead and          *)
(* getBspLead with p3.  Its variant is "p0".                               *)
(***************************************************************************)
\* the identifiers that are looked up; JNull is a GET without ?identifier
Str_9 == << 57 >>
LeadIds == {JNull, JStr(Str_latest), JStr(Str_7), JStr(Str_8), JStr(Str_s), JStr(Str_9)}

\* the lead that is posted while the store fills up
FillerLead == LeadFields(JStr(Str_7), JNull, JNull, JStr(Str_a))

\* the number of leads from the start that are chosen freely
FreeLeads == 2

\* handleGetLead
handleGetLead(store, identifier) ==
  IF ~Truthy(identifier) THEN [status |-> 400, body |-> << >>, error |-> "MISSING_IDENTIFIER"]
  ELSE IF getBspLead(store, identifier).t # "lead"
    THEN [status |-> 404, body |-> << >>, error |-> "LEAD_NOT_FOUND"]
  ELSE Plain200

LeadInit ==
  /\ variant = "p0"
  /\ privateKeyPem = ServerKeyPem
  /\ keyImports = 0
  /\ bspLeadStore = NoLeads
  /\ job = NoJob
  /\ served = 0
  /\ pc = "idle"
  /\ method = "none"
  /\ req = NoEnvelope
  /\ sender = NoSender
  /\ session = NoSession
  /\ origin = NoScenario
  /\ imageData = NoImageData
  /\ mediaOps = << >>
  /\ mediaOut = NoMediaOut
  /\ recipient = << >>
  /\ responsePayload = JNull
  /\ res = NoResponse
  /\ gcmOps = << >>

\* POST: handleBspLead.  The leads stored so far are counted by the timestamp
\* of the latest one.
LeadPost(body) ==
  /\ variant = "p0"
  /\ pc = "idle"
  /\ bspLeadStore.latest.timestamp < MaxStored
  /\ \/ bspLeadStore.latest.timestamp < FreeLeads
     \/ bspLeadStore.latest.timestamp = RecentCap
     \/ body = FillerLead
  /\ LET answer == handleBspLead(variant, body, bspLeadStore)
     IN  /\ res' = [status |-> answer.status,
                    body   |-> IF answer.status = 200 THEN << 1 >> ELSE << >>,
                    error  |-> answer.error]
         /\ bspLeadStore' = answer.store
  /\ pc' = "done"
  /\ method' = "POST"
  /\ req' = [NoEnvelope EXCEPT !.lead = body]
  /\ UNCHANGED << variant, privateKeyPem, keyImports, job, served, sender, session, origin,
                  imageData, mediaOps, mediaOut, recipient, responsePayload, gcmOps >>

\* GET: with ?identifier=... handleGetLead, without it the usage message
LeadGet(identifier) ==
  /\ variant = "p0"
  /\ pc = "idle"
  /\ res' = IF Truthy(identifier) THEN handleGetLead(bspLeadStore, identifier) ELSE Plain200
  /\ pc' = "done"
  /\ method' = "GET"
  /\ req' = [NoEnvelope EXCEPT !.lead = LeadFields(JNull, JNull, identifier, JNull)]
  /\ UNCHANGED << variant, privateKeyPem, keyImports, bspLeadStore, job, served, sender,
                  session, origin, imageData, mediaOps, mediaOut, recipient, responsePayload,
                  gcmOps >>

LeadNext ==
  \/ \E body \in LeadBodies : LeadPost(body)
  \/ \E identifier \in LeadIds : LeadGet(identifier)
  \/ Finish

LeadSpec == LeadInit /\ [][LeadNext]_vars

(***************************************************************************)
(* Properties                                                              *)
(***************************************************************************)
Has(ops, name) == \E i \in 1..Len(ops) : ops[i] = name
MediaReturned == pc \in {"encrypt", "done"} /\ origin # NoScenario
ValidLengths(sc) == sc.keyLen = 32 /\ sc.macLen = 32 /\ sc.ivLen = 16

\* C1: in every execution of decryptWhatsAppImage the AES-256-CBC step is
\* reached only after the MAC check on the fetched blob has been computed and
\* has passed; no step of the routine decrypts after a failed or skipped check.
C1_DecryptOnlyAfterMac ==
  \A i \in 1..Len(mediaOps) :
     mediaOps[i] = "cbc" =>
       /\ \E j \in 1..(i - 1) : mediaOps[j] = "hmac"
       /\ \E j \in 1..(i - 1) : mediaOps[j] = "mac_pass"
       /\ ~Has(mediaOps, "mac_fail")
       /\ ~Has(mediaOps, "too_small")
       /\ ~Has(mediaOps, "hash_fail")

\* the variant that tries two MAC inputs has decrypted a blob
C1_Witness == variant = "hmac32" /\ Has(mediaOps, "cbc") /\ origin.kind = "full_ct"

\* C2: the nonce encryptResponse uses has the length of the request nonce, is
\* its byte-wise complement, and differs from it.
C2_ResponseNonceIsComplement ==
  \A i \in 1..Len(gcmOps) :
     gcmOps[i].dir = "encrypt" =>
       LET n == session.initialVectorBuffer
           u == gcmOps[i].nonce
       IN  /\ Len(u) = Len(n)
           /\ \A k \in 1..Len(n) : u[k] \in Byte /\ u[k] + n[k] = 255
           /\ u # n

\* a response was encrypted for a request whose nonce is a single byte
C2_Witness ==
  /\ pc = "done"
  /\ res.status = 200
  /\ Len(session.initialVectorBuffer) = 1
  /\ Len(gcmOps) = 2

\* C3: within one request no two AES-GCM operations use the same (key, nonce).
C3_NoNonceReuse ==
  \A i, j \in 1..Len(gcmOps) :
     i < j => << gcmOps[i].key, gcmOps[i].nonce >> # << gcmOps[j].key, gcmOps[j].nonce >>

\* the request was decrypted and its response encrypted under the same key
C3_Witness ==
  /\ pc = "done"
  /\ Len(gcmOps) = 2
  /\ gcmOps[1].dir = "decrypt"
  /\ gcmOps[2].dir = "encrypt"
  /\ gcmOps[1].key = gcmOps[2].key
  /\ Len(gcmOps[1].nonce) = MaxNonceLen

\* the canonical check of section 4.4, computed from the reference and the blob
CanonicalMacOk(img, blob) ==
  /\ Len(blob) > 10
  /\ Drop(blob, Len(blob) - 10) =
       Take(HmacSha256(Base64Decode(img.hmac_key),
                       Base64Decode(img.iv) \o Take(blob, Len(blob) - 10)), 10)

\* C4: a fetched blob is accepted (passes media authentication) if and only if
\* its last 10 bytes are the first 10 bytes of HMAC-SHA256(macKey, nonce ||
\* cipherText); stated for references without encrypted_hash.
C4_AcceptsIffCanonicalMac ==
  (/\ MediaReturned
   /\ Has(mediaOps, "fetch")
   /\ origin.fetchOk
   /\ origin.arrival = "complete"
   /\ origin.hash = "none")
    => (Has(mediaOps, "mac_pass") <=> CanonicalMacOk(imageData, BlobOf(origin)))

\* C5: a correctly constructed blob with one bit of its cipherText or trailer
\* changed is rejected, and AES-CBC is not run on it.
C5_TamperedBlobRejected ==
  (MediaReturned /\ origin.kind = "canon" /\ origin.tPos > 0 /\ ValidLengths(origin))
    => /\ ~mediaOut.ok
       /\ ~Has(mediaOps, "cbc")
       /\ ~Has(mediaOps, "mac_pass")

\* the 10-byte variant has computed the MAC of a tampered blob and rejected it
C5_Witness ==
  /\ MediaReturned
  /\ variant = "hmac10"
  /\ origin.kind = "canon"
  /\ origin.tPos > 0
  /\ Has(mediaOps, "mac_fail")
  /\ mediaOut.err = "HMAC verification failed"

\* C6: a blob of 10 bytes or less is rejected as too small before any MAC or
\* cipher step; a blob of 11 bytes or more is not rejected by the length check.
C6_LengthCheckAtTen ==
  (MediaReturned /\ Has(mediaOps, "fetch") /\ origin.fetchOk /\ origin.arrival = "complete")
    => IF Len(BlobOf(origin)) <= 10
       THEN /\ mediaOut.err = "Encrypted payload too small"
            /\ ~Has(mediaOps, "hmac")
            /\ ~Has(mediaOps, "cbc")
       ELSE mediaOut.err # "Encrypted payload too small"

\* C7: an envelope with one bit of its wrapped key, ciphertext or nonce changed
\* makes decryptRequest fail: no payload, key or nonce is returned and the
\* handler builds and sends no response payload for it.
C7_TamperedEnvelopeFails ==
  (sender.tamper.field # "none" /\ pc \notin {"idle", "decrypt"})
    => /\ pc = "done"
       /\ ~session.ok
       /\ session.decryptedBody = JNull
       /\ responsePayload = JNull
       /\ res.status # 200
       /\ res.body = << >>

\* a request whose nonce was changed in transit has been answered
C7_Witness ==
  /\ pc = "done"
  /\ sender.tamper.field = "iv"
  /\ sender.plain = Utf8Encode(JsonStringify(ImagePayload))
  /\ res.status \in {400, 500}

Complement(n) == [i \in 1..Len(n) |-> 255 - n[i]]

\* C8: the wire response, decrypted under the session key with the complement
\* of the request nonce, is exactly the response payload.
C8_ResponseRoundTrip ==
  (pc = "done" /\ res.status = 200 /\ session.ok)
    => LET d == DecryptFlowData(session.aesKeyBuffer, res.body,
                                Base64Encode(Complement(session.initialVectorBuffer)))
       IN  d.ok /\ d.decryptedBody = responsePayload

\* a response carrying a string with a quote, a backslash and a non-ASCII
\* letter has been sent under a 12-byte nonce
C8_Witness ==
  /\ pc = "done"
  /\ res.status = 200
  /\ Len(session.initialVectorBuffer) = 12
  /\ Get(DataOf(responsePayload), Str_product_category) = JStr(Str_tricky)

\* C9: for a correctly constructed blob, authentication followed by decryption
\* returns exactly the plaintext.
C9_MediaRoundTrip ==
  (/\ MediaReturned
   /\ origin.kind = "canon"
   /\ origin.tPos = 0
   /\ ValidLengths(origin)
   /\ origin.hash # "bad"
   /\ origin.fetchOk
   /\ origin.arrival = "complete"
   /\ origin.url)
    => mediaOut.ok /\ Base64Decode(mediaOut.val) = PlainOf(origin)

\* C10: a reference whose encryption_key, hmac_key or iv has a wrong length is
\* rejected before any fetch, MAC or cipher step.
C10_LengthsValidatedFirst ==
  (origin # NoScenario /\ ~ValidLengths(origin) /\ origin.url)
    => /\ mediaOps = << "invalid" >>
       /\ ~mediaOut.ok

\* decryptRequest has been called and has returned or thrown
DecryptRequestReturned ==
  /\ sender # NoSender
  /\ privateKeyPem = ServerKeyPem
  /\ pc \notin {"idle", "decrypt"}

\* C11: decryptRequest succeeds only when the unwrapped symmetric key is
\* exactly 32 bytes long; a key of any other length is rejected.
C11_KeyIsThirtyTwoBytes ==
  (DecryptRequestReturned /\ session.ok) => Len(session.aesKeyBuffer) = 32

\* C12: when one of the three envelope fields is missing, decryptRequest fails
\* with the missing-fields error before the RSA-OAEP unwrap and before any
\* AES-GCM operation.
C12_MissingFieldFailsFirst ==
  (/\ DecryptRequestReturned
   /\ \/ Missing(req.encrypted_aes_key)
      \/ Missing(req.encrypted_flow_data)
      \/ Missing(req.initial_vector))
    => /\ pc = "done"
       /\ ~session.ok
       /\ session.err = "Missing encrypted data fields"
       /\ ~session.rsa
       /\ gcmOps = << >>
       /\ res.status # 200

\* a body without encrypted_flow_data has been refused
C12_Witness ==
  /\ DecryptRequestReturned
  /\ pc = "done"
  /\ sender.omit = "data"
  /\ ~Missing(req.encrypted_aes_key)
  /\ session.err = "Missing encrypted data fields"

\* the request as sent cannot be decrypted: a bit of a field was changed (bad
\* asymmetric padding, tag mismatch), or the plaintext is not UTF-8 or not JSON
Undecryptable(sc) ==
  \/ sc.tamper.field # "none"
  \/ sc.plain \in {<< 123 >>, BadUtf8Text}

\* C13: when a step of the envelope decryption fails (asymmetric padding, tag,
\* UTF-8, JSON), decryptRequest returns no payload, key or nonce and the
\* handler sends no encrypted response.
C13_FailedStepMeansNoResponse ==
  (DecryptRequestReturned /\ sender.omit = "none" /\ Undecryptable(sender))
    => /\ pc = "done"
       /\ ~session.ok
       /\ session.decryptedBody = JNull
       /\ session.aesKeyBuffer = << >>
       /\ session.initialVectorBuffer = << >>
       /\ responsePayload = JNull
       /\ res.status # 200
       /\ res.body = << >>

\* PRIVATE_KEY is absent or cannot be imported
KeyUnusable == Missing(privateKeyPem) \/ ~importPrivateKey(privateKeyPem).ok

\* C14: while the private key is missing or invalid the handler answers every
\* request, of any method and body shape, with a failure and processes nothing.
C14_NoServiceWithoutKey ==
  (KeyUnusable /\ pc = "done")
    => /\ res.status >= 400
       /\ ~session.ok
       /\ bspLeadStore = NoLeads

\* the variant's own MAC comparison passes on the fetched blob
TrailerVerifies ==
  LET blob == BlobOf(origin)
      n    == TrailerLen(variant)
  IN  /\ Len(blob) > n
      /\ MacMatches(variant, Base64Decode(imageData.hmac_key), Base64Decode(imageData.iv),
                    Take(blob, Len(blob) - n), Drop(blob, Len(blob) - n))

\* C15: an encrypted_hash that does not match the fetched blob is only a
\* warning: a blob whose MAC trailer verifies is still accepted and decrypted.
C15_HashMismatchIsWarning ==
  (/\ MediaReturned
   /\ Has(mediaOps, "fetch")
   /\ origin.fetchOk
   /\ origin.hash = "bad"
   /\ origin.kind = "canon"
   /\ TrailerVerifies)
    => /\ Has(mediaOps, "mac_pass")
       /\ Has(mediaOps, "cbc")
       /\ mediaOut.ok

\* C16: an authenticated cipherText whose length is not a multiple of 16 is
\* rejected with the invalid-length error and AES-CBC is not attempted on it.
C16_OddCipherTextRejected ==
  (/\ MediaReturned
   /\ Has(mediaOps, "mac_pass")
   /\ (Len(BlobOf(origin)) - TrailerLen(variant)) % 16 # 0)
    => /\ ~mediaOut.ok
       /\ mediaOut.err = "Ciphertext length not a multiple of 16"
       /\ ~Has(mediaOps, "cbc")

\* the blobs whose authenticated cipherText decrypts to bad PKCS#7 padding
BadPadKinds == {"bad_pad", "pad_big", "pad_mix", "pad_full"}

\* C17: when the PKCS#7 padding is invalid after decryption the reference is
\* rejected as on an authentication failure: no plaintext is returned, nothing
\* is generated or sent, and the response is the error screen of a failure.
C17_BadPaddingRejected ==
  (MediaReturned /\ Has(mediaOps, "cbc") /\ origin.kind \in BadPadKinds)
    => /\ ~mediaOut.ok
       /\ mediaOut.val = << >>
       /\ ~Has(mediaOps, "unpad")
       /\ recipient = << >>
       /\ ScreenOf(responsePayload) =
            ScreenOf(MediaResponse(variant, Fail("HMAC verification failed"), FALSE))
       /\ Get(DataOf(responsePayload), Str_image_url) = JNull
       /\ Get(DataOf(responsePayload), Str_message) = JNull

\* the 10-byte variant has decrypted a block whose padding bytes differ
C17_Witness ==
  /\ MediaReturned
  /\ variant = "hmac10"
  /\ origin.kind = "pad_mix"
  /\ Has(mediaOps, "mac_pass")
  /\ Has(mediaOps, "cbc")
  /\ mediaOut.err = "AES decryption failed"

\* C18: every core failure reaches the caller as one signal that does not
\* depend on the cause: a flow request that fails outside the encrypted
\* channel gets the response of a configuration failure, and a media failure
\* gets the response of an authentication failure.
C18_OneOpaqueFailure ==
  /\ (sender # NoSender /\ pc = "done" /\ res.status # 200)
       => res = ConfigFailure(variant)
  /\ (MediaReturned /\ ~mediaOut.ok)
       => responsePayload = MediaResponse(variant, Fail("HMAC verification failed"), FALSE)

\* C19: what a flow request yields depends on that request alone: the session
\* is the one decryptRequest computes from its body, and the recipient of the
\* generated image is the one its payload names, whatever was handled before.
C19_RequestsShareNothing ==
  /\ (DecryptRequestReturned => session = decryptRequest(req, ServerKeyDer))
  /\ (MediaReturned /\ recipient # << >>)
       => recipient = Recipient(variant, session.decryptedBody, NoLeads, mediaOut, TRUE)
  /\ (MediaReturned /\ mediaOut.ok /\ variant = "p3")
       => recipient = Recipient(variant, session.decryptedBody, NoLeads, mediaOut, TRUE)

\* the number of times the media routine called fetch
FetchCount == Cardinality({ i \in 1..Len(mediaOps) : mediaOps[i] = "fetch" })

\* C20: a failed fetch of the media blob surfaces as an error only after it
\* has been retried.
C20_FetchRetried ==
  (MediaReturned /\ Has(mediaOps, "fetch") /\ ~origin.fetchOk) => FetchCount > 1

\* how many times a step occurs in a log of steps
Count(ops, name) == Cardinality({i \in 1..Len(ops) : ops[i] = name})
GcmDecrypts == Cardinality({i \in 1..Len(gcmOps) : gcmOps[i].dir = "decrypt"})

C23_FetchIsAllOrNothing ==
  (/\ MediaReturned
   /\ Has(mediaOps, "fetch")
   /\ (~origin.fetchOk \/ origin.arrival # "complete"))
    => /\ mediaOps = << "validated", "fetch" >>
       /\ ~Has(mediaOps, "hmac")
       /\ ~Has(mediaOps, "cbc")
       /\ ~mediaOut.ok

\* the body of a blob ended early, after more bytes than a trailer has, and the
\* canonical routine has returned
C23_Witness ==
  /\ MediaReturned
  /\ variant = "hmac10"
  /\ origin.arrival = "cut"
  /\ origin.kind = "canon"
  /\ Len(CdnOf(origin).body) > 10
  /\ mediaOut.err = "terminated"

\* C24: the private key is imported once per process: over any sequence of
\* requests importPrivateKey runs at most once.
C24_KeyImportedOnce == keyImports <= 1

Min(a, b) == IF a < b THEN a ELSE b

\* C25: bspLeadStore.recent never has more than 100 elements; it holds the
\* most recently stored leads, newest first, and after a store its first
\* element is the lead that is in bspLeadStore.latest.
C25_RecentIsBoundedNewestFirst ==
  LET recent == bspLeadStore.recent
      latest == bspLeadStore.latest
  IN  /\ Len(recent) <= RecentCap
      /\ Len(recent) = Min(latest.timestamp, RecentCap)
      /\ \A i \in 1..Len(recent) : recent[i].timestamp = latest.timestamp - (i - 1)
      /\ recent # << >> => recent[1] = latest

\* C25 witness: more than 100 leads have been stored, the last one by a POST
\* that has just been answered, and recent holds 100 of them
C25_Witness ==
  /\ variant = "p0" /\ pc = "done" /\ method = "POST" /\ res.status = 200
  /\ bspLeadStore.latest.timestamp > RecentCap
  /\ Len(bspLeadStore.recent) = RecentCap
  /\ bspLeadStore.recent[1] = bspLeadStore.latest

\* C26: every value of bspLeadStore.bySession is a key of
\* bspLeadStore.byPhone, so getBspLead(id) for an id in bySession returns a
\* stored lead, never undefined; getBspLead returns null only for an id that
\* is in neither map.
C26_SessionsLeadToPhones ==
  /\ \A e \in bspLeadStore.bySession : MapHas(bspLeadStore.byPhone, e[2])
  /\ \A id \in LeadIds :
       LET lead == getBspLead(bspLeadStore, id)
       IN  /\ lead.t # "undefined"
           /\ MapHas(bspLeadStore.bySession, id) => lead.t = "lead"
           /\ lead.t = "null" =>
                ~MapHas(bspLeadStore.byPhone, id) /\ ~MapHas(bspLeadStore.bySession, id)

\* C26 witness: a GET for a session id that is not a phone number has been
\* answered with the lead stored under the phone number the session maps to
C26_Witness ==
  /\ variant = "p0" /\ pc = "done" /\ method = "GET" /\ res.status = 200
  /\ Truthy(req.lead.chatId)
  /\ MapHas(bspLeadStore.bySession, req.lead.chatId)
  /\ ~MapHas(bspLeadStore.byPhone, req.lead.chatId)
  /\ getBspLead(bspLeadStore, req.lead.chatId).phoneNumber
       = MapGet(bspLeadStore.bySession, req.lead.chatId, JNull)


\* the screen reached from a screen by n BACK actions in a row
RECURSIVE BackFrom(_, _, _)
BackFrom(v, screen, n) ==
  IF n = 0 THEN screen
  ELSE BackFrom(v, ScreenOf(BackScreen(v, BackPayload(screen))).s, n - 1)

\* C27: in the multi-screen flow handler a BACK action moves exactly one
\* screen back along FINAL_SUBMIT -> SUCCESS_SCREEN -> COLLECT_IMAGE_SCENE ->
\* COLLECT_INFO and goes to COLLECT_INFO from any other screen, so repeated
\* BACK actions starting from any screen reach COLLECT_INFO and then stay
\* there.
C27_BackGoesOneScreenBack ==
  (/\ variant = "hmac10" /\ pc \in {"encrypt", "done"} /\ session.ok
   /\ IsAction(session.decryptedBody, Str_BACK)) =>
    LET from == ScreenOf(session.decryptedBody)
        to   == ScreenOf(responsePayload)
    IN  /\ responsePayload = Screen(to.s, << >>)
        /\ to = JStr(IF \E i \in 1..(Len(FlowScreens) - 1) : from = JStr(FlowScreens[i])
                     THEN FlowScreens[(CHOOSE i \in 1..(Len(FlowScreens) - 1) :
                                         from = JStr(FlowScreens[i])) + 1]
                     ELSE Str_COLLECT_INFO)
        /\ BackFrom(variant, to.s, Len(FlowScreens) - 2) = Str_COLLECT_INFO
        /\ \A n \in 1..Len(FlowScreens) : BackFrom(variant, Str_COLLECT_INFO, n) = Str_COLLECT_INFO

\* C27 witness: a BACK from FINAL_SUBMIT has been answered with SUCCESS_SCREEN
C27_Witness ==
  /\ variant = "hmac10" /\ pc = "done" /\ res.status = 200 /\ session.ok
  /\ session.decryptedBody = BackPayload(Str_FINAL_SUBMIT)
  /\ responsePayload = Screen(Str_SUCCESS_SCREEN, << >>)


\* is the POST body of the request lead-shaped: at least one lead field and
\* none of the three envelope fields
LeadShaped == isBspLead(req) /\ ~isWhatsAppFlow(req)

\* the lead store changes only in the step that answers a lead-shaped POST
LeadStoreWrittenByLeadsOnly ==
  [][bspLeadStore' # bspLeadStore =>
       /\ variant = "p3" /\ pc = "idle" /\ pc' = "done" /\ method' = "POST"
       /\ isBspLead(req') /\ ~isWhatsAppFlow(req')]_vars

HandshakeOk ==
  /\ req.query.mode = JStr(Str_subscribe)
  /\ req.query.token = JStr(VerifyToken)
  /\ req.query.challenge.t = "str" /\ req.query.challenge.s # << >>
EchoesChallenge == Truthy(req.query.challenge) /\ res.body = req.query.challenge.s

=============================================================================
